---- MODULE Spec2Model ----
(***************************************************************************)
(* Model of mind_snag's cross-recording neuron stitching engine            *)
(* (mind_snag/stitching/stitch_neurons.py, class NeuronStitcher).          *)
(*                                                                         *)
(* NeuronStitcher.run is a batch computation: validate the configuration,  *)
(* load the cluster info of every recording, process the union channel set *)
(* channel by channel, deduplicate, filter, return.  The model follows one *)
(* run; the inputs (configuration, recording list, the files on disk) are  *)
(* fixed by Init and never change.                                         *)
(*                                                                         *)
(* Floating point: a float is modelled as <<v>> (v an integer) or <<>>     *)
(* (NaN).  A Pearson correlation is kept exactly, as the pair (c, d) with  *)
(* value c / sqrt(d), so comparisons are exact; IEEE rounding of           *)
(* np.corrcoef is not modelled.  Thresholds are in hundredths.             *)
(***************************************************************************)
EXTENDS Integers, Sequences, FiniteSets, TLC

VARIABLES
    cfg,               \* MindSnagConfig fields read by the stitcher, plus cluster_type
    recs,              \* self.recs: the list of recordings
    disk,              \* the files the run reads
    pc,                \* position of run(): init, validated, loaded, done, raised
    error,             \* the exception that ended the run, "none" otherwise
    clu_info_per_rec,  \* self.clu_info_per_rec
    chan_map,          \* self.chan_map (<<>> until loaded)
    uni_chans,         \* self.uni_chans, ascending
    chan_i,            \* position of the channel loop of _run_stitching (1-based)
    prediction_list,   \* rows emitted so far
    origin,            \* for each emitted row: the channel, recording and unit it was emitted for
    unique_stitch,     \* rows after deduplication
    stitch_table,      \* the table returned
    corr_args,         \* _pairwise_corr: the arguments a, b of one call
    corr_ret,          \* _pairwise_corr: <<value returned>>, <<>> before the call returns
    psth_args,         \* psth: the arguments spike_cell, bn, smoothing of one call
    psth_ret,          \* psth: <<[rate, n_tr]>> once the call returned, <<>> before
    sp,                \* clus_channel_info: the Kilosort output (temps, pc_feat_ind, clu, pc_feat)
    cids,              \* clus_channel_info: the cluster IDs of the label file
    clu_pos,           \* clus_channel_info: position of the loop over cids (1-based)
    max_site_list,     \* clus_channel_info: best channel per unit so far
    min_site_list,     \* clus_channel_info: worst channel per unit so far
    site_pc,           \* clus_channel_info: idle, loop, returned, raised; extract_spikes: saved, stack_raised
    clu_info,          \* extract_spikes: the rows [cluster ID, channel] written to the NPclu file
    trial_args,        \* trial_np_spike: the arguments trials, cluster_id, event_field, bn
    day_recs,          \* trial_np_spike: the recordings of the day on disk, each with its event and spike tables
    rec_pos,           \* trial_np_spike: position of the loop over all_recs (1-based)
    spike_result,      \* trial_np_spike: one array per trial
    trial_pc,          \* trial_np_spike: idle, called, loop, returned
    raster_args,       \* _extract_task_rasters: trials, task_cfg, and the events with which trial_np_spike raises
    attempts,          \* _extract_task_rasters: the events trial_np_spike was called with, in order
    raster_ret,        \* _extract_task_rasters: <<[spikes, rt]>> once returned, <<>> before
    raster_pc,         \* _extract_task_rasters: idle, try, except, returned, raised
    sort_args,         \* sort_spikes_by_rt: the arguments rt, spike_cell of one call
    sort_ret,          \* sort_spikes_by_rt: <<[sorted_rt, sorted_spx]>> once returned, <<>> before
    sort_pc,           \* sort_spikes_by_rt: idle, called, returned, raised
    ext_args,          \* extract_rasters, one cluster: task_trial_map and the events with which trial_np_spike raises
    task_pos,          \* extract_rasters: position of the loop over TASK_TYPES (1-based)
    all_spikes,        \* extract_rasters: the per-trial spike lists gathered so far
    all_rt,            \* extract_rasters: the reaction times gathered so far
    all_owner,         \* for each entry of all_spikes: the task type and the trial it was extracted for
    ext_pc             \* extract_rasters: idle, loop, saved, raised

stitch_vars == <<cfg, recs, disk, pc, error, clu_info_per_rec, chan_map, uni_chans,
                 chan_i, prediction_list, origin, unique_stitch, stitch_table>>
corr_vars == <<corr_args, corr_ret>>
psth_vars == <<psth_args, psth_ret>>
site_vars == <<sp, cids, clu_pos, max_site_list, min_site_list, site_pc, clu_info>>
trial_vars == <<trial_args, day_recs, rec_pos, spike_result, trial_pc>>
raster_vars == <<raster_args, attempts, raster_ret, raster_pc>>
sort_vars == <<sort_args, sort_ret, sort_pc>>
extract_vars == <<ext_args, task_pos, all_spikes, all_rt, all_owner, ext_pc>>

\* the variables NeuronStitcher.run does not touch
aux_vars == <<corr_vars, psth_vars, site_vars, trial_vars, raster_vars, sort_vars, extract_vars>>

vars == <<stitch_vars, aux_vars>>

inputs == <<cfg, recs, disk>>

(***************************************************************************)
(* Bounds                                                                  *)
(***************************************************************************)
MaxUnits == 3      \* units summed over the recordings of one run (matching family)
RateLen == 3       \* length of a firing-rate curve (bn[1] - bn[0] + 1 in the code)
WfLen == 3         \* length of the NaN waveform (61 in the code)

(***************************************************************************)
(* Floats and arrays                                                       *)
(***************************************************************************)
NaN == <<>>
Num(v) == <<v>>
IsNaN(x) == x = NaN
Val(x) == x[1]
NanArray(n) == [i \in 1..n |-> NaN]

Min(a, b) == IF a <= b THEN a ELSE b

RECURSIVE SortedSeq(_)
SortedSeq(S) ==
    IF S = {} THEN <<>>
    ELSE LET m == CHOOSE x \in S : \A y \in S : x <= y
         IN <<m>> \o SortedSeq(S \ {m})

RECURSIVE SeqSum(_)
SeqSum(s) == IF s = <<>> THEN 0 ELSE Head(s) + SeqSum(Tail(s))

(***************************************************************************)
(* Correlation values: NaN, minus infinity, or the real c / sqrt(d), d > 0 *)
(***************************************************************************)
CorrNaN == [k |-> "nan", c |-> 0, d |-> 1]
CorrNegInf == [k |-> "ninf", c |-> 0, d |-> 1]
CorrReal(c, d) == [k |-> "real", c |-> c, d |-> d]

\* l * sqrt(p) >= r * sqrt(q), for p, q > 0
RootGe(l, p, r, q) ==
    IF l >= 0 /\ r < 0 THEN TRUE
    ELSE IF l < 0 /\ r >= 0 THEN FALSE
    ELSE IF l >= 0 THEN l * l * p >= r * r * q
    ELSE l * l * p <= r * r * q

\* x >= t / 100 as numpy compares floats: False when x is NaN
CorrGe(x, t) ==
    CASE x.k = "nan" -> FALSE
      [] x.k = "ninf" -> FALSE
      [] OTHER -> RootGe(100 * x.c, 1, t, x.d)

\* x > y in the order np.argmax uses: NaN is the maximum
CorrGt(x, y) ==
    CASE x.k = "nan" -> y.k # "nan"
      [] y.k = "nan" -> FALSE
      [] x.k = "ninf" -> FALSE
      [] y.k = "ninf" -> TRUE
      [] OTHER -> ~RootGe(y.c, x.d, x.c, y.d)

\* np.argmax: the first index of the maximum (1-based here)
ArgMax(s) ==
    CHOOSE i \in 1..Len(s) :
        /\ \A j \in 1..Len(s) : ~CorrGt(s[j], s[i])
        /\ \A j \in 1..(i - 1) : CorrGt(s[i], s[j])

NanToNumDropped(x) == x

\* np.nan_to_num(x, nan=-np.inf) on one correlation
NanToNum(x) == IF x.k = "nan" THEN CorrNegInf ELSE x

PairwiseCorrZeroFill(a, b) ==
    LET n == Min(Len(a), Len(b))
        av == [j \in 1..n |-> IF IsNaN(a[j]) THEN 0 ELSE Val(a[j])]
        bv == [j \in 1..n |-> IF IsNaN(b[j]) THEN 0 ELSE Val(b[j])]
        sa == SeqSum(av)
        sb == SeqSum(bv)
        cov == n * SeqSum([j \in 1..n |-> av[j] * bv[j]]) - sa * sb
        va == n * SeqSum([j \in 1..n |-> av[j] * av[j]]) - sa * sa
        vb == n * SeqSum([j \in 1..n |-> bv[j] * bv[j]]) - sb * sb
    IN  IF va * vb = 0 THEN CorrNaN ELSE CorrReal(cov, va * vb)

PairwiseCorrCompacted(a, b) ==
    LET NotNaN(x) == ~IsNaN(x)
        ac == SelectSeq(a, NotNaN)
        bc == SelectSeq(b, NotNaN)
        n == Min(Len(ac), Len(bc))
        av == [j \in 1..n |-> Val(ac[j])]
        bv == [j \in 1..n |-> Val(bc[j])]
        sa == SeqSum(av)
        sb == SeqSum(bv)
        cov == n * SeqSum([j \in 1..n |-> av[j] * bv[j]]) - sa * sb
        va == n * SeqSum([j \in 1..n |-> av[j] * av[j]]) - sa * sa
        vb == n * SeqSum([j \in 1..n |-> bv[j] * bv[j]]) - sb * sb
    IN  IF va * vb = 0 THEN CorrNaN ELSE CorrReal(cov, va * vb)

\* _pairwise_corr
PairwiseCorr(a, b) ==
    LET min_len == Min(Len(a), Len(b))
        valid == {i \in 1..min_len : ~IsNaN(a[i]) /\ ~IsNaN(b[i])}
        idx == SortedSeq(valid)
        n == Cardinality(valid)
        av == [j \in 1..n |-> Val(a[idx[j]])]
        bv == [j \in 1..n |-> Val(b[idx[j]])]
        sa == SeqSum(av)
        sb == SeqSum(bv)
        cov == n * SeqSum([j \in 1..n |-> av[j] * bv[j]]) - sa * sb
        va == n * SeqSum([j \in 1..n |-> av[j] * av[j]]) - sa * sa
        vb == n * SeqSum([j \in 1..n |-> bv[j] * bv[j]]) - sb * sb
    IN  IF min_len = 0 THEN CorrNaN
        ELSE IF n < 2 THEN CorrNaN
        ELSE IF va * vb = 0 THEN CorrNaN   \* np.corrcoef: 0/0 for a constant vector
        ELSE CorrReal(cov, va * vb)

(***************************************************************************)
(* Per-unit feature files                                                  *)
(***************************************************************************)
NumRecs == Len(recs)

\* _get_waveform: the SortData file holds a waveform, or nothing usable
GetWaveform(clu, rec) ==
    LET f == disk.sort[rec][clu]
    IN  IF f.exists /\ f.data # <<>> THEN f.data ELSE NanArray(WfLen)

\* _get_firing_rate: the RasterData file holds the trials whose PSTH is f.data
GetFiringRate(clu, rec) ==
    LET f == disk.raster[rec][clu]
    IN  IF f.exists /\ f.data # <<>> THEN f.data ELSE NanArray(RateLen)

(***************************************************************************)
(* _load_cluster_info                                                      *)
(***************************************************************************)
ErrDataRoot == "FileNotFoundError: data_root not found"
ErrNPclu == "FileNotFoundError: NPclu not found"
ErrIso == "ValueError: IsoClu_info not found"
ErrClusterType == "ValueError: cluster_type must be 'All', 'Good', or 'Isolated'"

\* the "Select cluster type" branch
SelectInfo(file) ==
    CASE cfg.cluster_type = "All" -> [err |-> "none", info |-> file.Clu_info]
      [] cfg.cluster_type = "Good" -> [err |-> "none", info |-> file.KSclu_info]
      [] cfg.cluster_type = "Isolated" ->
            IF ~file.has_iso THEN [err |-> ErrIso, info |-> <<>>]
            ELSE [err |-> "none", info |-> file.IsoClu_info]
      [] OTHER -> [err |-> ErrClusterType, info |-> <<>>]

\* chan_map[chan_indices[valid_mask]] of one recording, as a set
IsoChans(info, cmap) ==
    {cmap[info[j][2] + 1] :
        j \in {j \in 1..Len(info) : info[j][2] >= 0 /\ info[j][2] < Len(cmap)}}

\* the loop over self.recs, from recording i on
RECURSIVE LoadFrom(_, _, _)
LoadFrom(i, infos, chans) ==
    IF i > NumRecs THEN [err |-> "none", infos |-> infos, chans |-> chans]
    ELSE LET file == disk.npclu[recs[i]]
             sel == SelectInfo(file)
         IN  IF ~file.exists THEN [err |-> ErrNPclu, infos |-> infos, chans |-> chans]
             ELSE IF sel.err # "none" THEN [err |-> sel.err, infos |-> infos, chans |-> chans]
             ELSE LoadFrom(i + 1, Append(infos, sel.info),
                           chans \cup IsoChans(sel.info, disk.channel_map))

(***************************************************************************)
(* Channel neighbourhood and candidates                                    *)
(***************************************************************************)
\* _get_cluster_ids
GetClusterIds(channel_id) ==
    LET chan_ind == {i \in 0..(Len(chan_map) - 1) : chan_map[i + 1] = channel_id}
    IN  [r \in 1..NumRecs |->
            LET info == clu_info_per_rec[r]
                OnChan(row) == row[2] \in chan_ind
                rows == SelectSeq(info, OnChan)
            IN  IF Len(info) = 0 \/ chan_ind = {} THEN <<>>
                ELSE [j \in 1..Len(rows) |-> rows[j][1]]]

\* _get_within_range_channels
GetWithinRangeChannels(selected_channel) ==
    LET elec == disk.elec_num
        n == Len(elec)
    IN  IF n = 0 \/ selected_channel >= n THEN <<selected_channel>>
        ELSE LET corr_elec == elec[selected_channel + 1]
                 lo == corr_elec - cfg.channel_range
                 hi == corr_elec + cfg.channel_range
             IN  SortedSeq({i \in 0..(n - 1) : elec[i + 1] >= lo /\ elec[i + 1] <= hi})

\* the "Gather data for all nearby channels" loop, for recording r
RECURSIVE GatherIds(_, _)
GatherIds(nearby, r) ==
    IF nearby = <<>> THEN <<>>
    ELSE LET ch_int == Head(nearby)
         IN  (IF ch_int >= Len(chan_map) THEN <<>>
              ELSE GetClusterIds(chan_map[ch_int + 1])[r])
             \o GatherIds(Tail(nearby), r)

AllClusterIds(current_chan) ==
    [r \in 1..NumRecs |-> GatherIds(GetWithinRangeChannels(current_chan), r)]

(***************************************************************************)
(* Matching                                                                *)
(***************************************************************************)
AcceptEither(fr_corr, wf_corr) ==
    CorrGe(fr_corr, cfg.fr_corr_threshold) \/ CorrGe(wf_corr, cfg.wf_corr_threshold)

AcceptNotBelow(fr_corr, wf_corr) ==
    /\ CorrGe(fr_corr, cfg.fr_corr_threshold)
    /\ (wf_corr.k = "nan" \/ CorrGe(wf_corr, cfg.wf_corr_threshold))

\* fr_corrs[best_idx] >= self.fr_threshold and wf_corrs[best_idx] >= self.wf_threshold
Accept(fr_corr, wf_corr) ==
    CorrGe(fr_corr, cfg.fr_corr_threshold) /\ CorrGe(wf_corr, cfg.wf_corr_threshold)

\* the slot of other_rec in the row of unit clu_id of recording i_rec
MatchSlot(i_rec, clu_id, other_rec, other_ids) ==
    LET fr == GetFiringRate(clu_id, recs[i_rec])
        wf == GetWaveform(clu_id, recs[i_rec])
        n == Len(other_ids)
        raw == [j \in 1..n |-> PairwiseCorr(fr, GetFiringRate(other_ids[j], recs[other_rec]))]
        wf_corrs == [j \in 1..n |-> PairwiseCorr(wf, GetWaveform(other_ids[j], recs[other_rec]))]
        fr_corrs == [j \in 1..n |-> NanToNum(raw[j])]
        best_idx == ArgMax(fr_corrs)
    IN  IF n = 0 THEN NaN
        ELSE IF Accept(fr_corrs[best_idx], wf_corrs[best_idx]) THEN Num(other_ids[best_idx])
        ELSE NaN

Stitched(i_rec, clu_id, all_cluster_ids) ==
    [r \in 1..NumRecs |->
        IF r = i_rec THEN Num(clu_id)
        ELSE MatchSlot(i_rec, clu_id, r, all_cluster_ids[r])]

CurrentPairsFirstUnit(current_clu_ids, i_rec) ==
    LET firsts == [r \in 1..NumRecs |->
                      IF current_clu_ids[r] = <<>> THEN <<>>
                      ELSE <<[rec |-> r, clu |-> current_clu_ids[r][1]]>>]
        RECURSIVE Cat(_)
        Cat(r) == IF r > NumRecs THEN <<>> ELSE firsts[r] \o Cat(r + 1)
    IN  Cat(i_rec)

\* the (i_rec, clu_id) pairs of one channel in loop order
RECURSIVE CurrentPairs(_, _)
CurrentPairs(current_clu_ids, i_rec) ==
    IF i_rec > NumRecs THEN <<>>
    ELSE [j \in 1..Len(current_clu_ids[i_rec]) |->
             [rec |-> i_rec, clu |-> current_clu_ids[i_rec][j]]]
         \o CurrentPairs(current_clu_ids, i_rec + 1)

\* the body of the channel loop: the rows appended for current_chan
ChannelRows(current_chan) ==
    LET all_cluster_ids == AllClusterIds(current_chan)
        pairs == CurrentPairs(GetClusterIds(current_chan), 1)
    IN  [j \in 1..Len(pairs) |-> Stitched(pairs[j].rec, pairs[j].clu, all_cluster_ids)]

ChannelOrigins(current_chan) ==
    LET pairs == CurrentPairs(GetClusterIds(current_chan), 1)
    IN  [j \in 1..Len(pairs) |->
            [chan |-> current_chan, rec |-> pairs[j].rec, clu |-> pairs[j].clu]]

(***************************************************************************)
(* Deduplication and filter                                                *)
(***************************************************************************)
\* dedup[np.isnan(dedup)] = 0, on one row
Sentinel(row) == [r \in 1..Len(row) |-> IF IsNaN(row[r]) THEN 0 ELSE Val(row[r])]

\* a < b in the row order np.unique(axis=0) sorts by
RECURSIVE LexLess(_, _)
LexLess(a, b) ==
    IF a = <<>> \/ b = <<>> THEN FALSE
    ELSE IF Head(a) # Head(b) THEN Head(a) < Head(b)
    ELSE LexLess(Tail(a), Tail(b))

RECURSIVE LexSorted(_)
LexSorted(S) ==
    IF S = {} THEN <<>>
    ELSE LET m == CHOOSE x \in S : \A y \in S \ {x} : LexLess(x, y)
         IN <<m>> \o LexSorted(S \ {m})

\* np.unique(dedup, axis=0, return_index=True)[1]: for each distinct row, in
\* sorted row order, the index of its first occurrence
NpUniqueIndex(dedup) ==
    LET uniq == LexSorted({dedup[i] : i \in 1..Len(dedup)})
    IN  [j \in 1..Len(uniq) |->
            CHOOSE i \in 1..Len(dedup) :
                dedup[i] = uniq[j] /\ \A h \in 1..(i - 1) : dedup[h] # uniq[j]]

NpSort(s) == SortedSeq({s[j] : j \in 1..Len(s)})

DeduplicateUnsorted(stitch_array) ==
    LET dedup == [i \in 1..Len(stitch_array) |-> Sentinel(stitch_array[i])]
        unique_idx == NpUniqueIndex(dedup)
    IN  [j \in 1..Len(unique_idx) |-> stitch_array[unique_idx[j]]]

\* stitch_array[np.sort(unique_idx)]
Deduplicate(stitch_array) ==
    LET dedup == [i \in 1..Len(stitch_array) |-> Sentinel(stitch_array[i])]
        unique_idx == NpUniqueIndex(dedup)
        sorted_idx == NpSort(unique_idx)
    IN  [j \in 1..Len(sorted_idx) |-> stitch_array[sorted_idx[j]]]

ValidCount(row) == Cardinality({r \in 1..Len(row) : ~IsNaN(row[r])})

FilterStrict(unique) ==
    LET Keep(row) == ValidCount(row) > cfg.min_recordings
    IN  SelectSeq(unique, Keep)

\* unique_stitch[valid_counts >= self.min_recs]
FilterMinRecs(unique) ==
    LET Keep(row) == ValidCount(row) >= cfg.min_recordings
    IN  SelectSeq(unique, Keep)

(***************************************************************************)
(* Inputs                                                                  *)
(***************************************************************************)
CurveA == <<Num(1), Num(2), Num(3)>>
CurveB == <<Num(1), Num(3), Num(2)>>      \* correlation 1/2 with CurveA

FileAbsent == [exists |-> FALSE, data |-> <<>>]
FileEmpty == [exists |-> TRUE, data |-> <<>>]     \* no RasterData / SortData inside
FileWith(curve) == [exists |-> TRUE, data |-> curve]

UnitIds == {0, 1}                  \* Kilosort cluster IDs start at 0
ChanIdx == {0, 1}
ClusterTypes == {"All", "Good", "Isolated", "Best"}
Thresholds == {-150, 50, 85, 100, 150}      \* hundredths; the config validates none
MinRecordings == {1, 2, 3}
ChanMaps == {<<0, 1>>, <<1, 0>>, <<0, 2>>}  \* channel_map.npy: index -> channel ID
ElecOptions ==                              \* electrode metadata and channel_range
    { [elec_num |-> <<>>, channel_range |-> 1],
      [elec_num |-> <<10, 11>>, channel_range |-> 0],
      [elec_num |-> <<10, 11>>, channel_range |-> 1] }

Profiles ==
    { [raster |-> FileWith(CurveA), sort |-> FileWith(CurveA)],
      [raster |-> FileWith(CurveB), sort |-> FileWith(CurveA)],
      [raster |-> FileWith(CurveA), sort |-> FileWith(CurveB)],
      [raster |-> FileAbsent, sort |-> FileWith(CurveA)],
      [raster |-> FileWith(CurveA), sort |-> FileAbsent],
      [raster |-> FileEmpty, sort |-> FileEmpty] }

Units(profiles) ==
    { [id |-> i, ch |-> c, good |-> TRUE, iso |-> TRUE, raster |-> p.raster, sort |-> p.sort] :
        i \in UnitIds, c \in ChanIdx, p \in profiles }

\* the units of one recording: at most one per ID, in ascending ID order
UnitLists(profiles) ==
    UNION { {us \in [1..n -> Units(profiles)] : \A j \in 1..(n - 1) : us[j].id < us[j + 1].id} :
            n \in 0..Cardinality(UnitIds) }

Rows(us, Keep(_)) ==
    LET kept == SelectSeq(us, Keep)
    IN  [j \in 1..Len(kept) |-> <<kept[j].id, kept[j].ch>>]

IsAny(u) == TRUE
IsGood(u) == u.good
IsIso(u) == u.iso

\* the NPclu file of a recording whose units are us
NPcluFile(exists, has_iso, us) ==
    [exists |-> exists, has_iso |-> has_iso,
     Clu_info |-> Rows(us, IsAny), KSclu_info |-> Rows(us, IsGood),
     IsoClu_info |-> Rows(us, IsIso)]

UnitOf(us, id) == us[CHOOSE j \in 1..Len(us) : us[j].id = id]
IdsOf(us) == {us[j].id : j \in 1..Len(us)}

\* the files of a run over recordings 1..n with units b[r], all NPclu files present
DiskOf(b, cmap, elec) ==
    [data_root |-> TRUE,
     npclu |-> [r \in DOMAIN b |-> NPcluFile(TRUE, TRUE, b[r])],
     raster |-> [r \in DOMAIN b |-> [id \in IdsOf(b[r]) |-> UnitOf(b[r], id).raster]],
     sort |-> [r \in DOMAIN b |-> [id \in IdsOf(b[r]) |-> UnitOf(b[r], id).sort]],
     channel_map |-> cmap,
     elec_num |-> elec]

DefaultCfg ==
    [cluster_type |-> "All", fr_corr_threshold |-> 85, wf_corr_threshold |-> 85,
     min_recordings |-> 2, channel_range |-> 1]

RecList(n) == [r \in 1..n |-> r]

TotalUnits(b) == SeqSum([r \in DOMAIN b |-> Len(b[r])])

\* matching: one or two recordings, any units, default configuration
InitMatching ==
    \E n \in {1, 2} : \E b \in [1..n -> UnitLists(Profiles)] :
        /\ TotalUnits(b) <= MaxUnits
        /\ cfg = DefaultCfg
        /\ recs = RecList(n)
        /\ disk = DiskOf(b, <<0, 1>>, <<>>)

\* end to end: three recordings, one unit each, all on one channel
E2EProfiles ==
    { [raster |-> f, sort |-> FileWith(CurveA)] :
        f \in {FileWith(CurveA), FileWith(CurveB), FileAbsent} }

InitEndToEnd ==
    \E c \in ChanIdx : \E cmap \in ChanMaps : \E el \in ElecOptions :
    \E b \in [1..3 -> {us \in UnitLists(E2EProfiles) : Len(us) = 1 /\ us[1].ch = c}] :
        /\ cfg = [DefaultCfg EXCEPT !.channel_range = el.channel_range]
        /\ recs = RecList(3)
        /\ disk = DiskOf(b, cmap, el.elec_num)

\* overlapping neighbourhoods: two recordings, units on two channels whose
\* electrodes are within channel_range of each other
InitNeighbours ==
    \E b \in [1..2 -> UnitLists(E2EProfiles)] :
        /\ TotalUnits(b) <= MaxUnits
        /\ cfg = DefaultCfg
        /\ recs = RecList(2)
        /\ disk = DiskOf(b, <<0, 1>>, <<10, 11>>)

\* thresholds and min_recordings: two recordings with one unit each on channel 0
InitThresholds ==
    \E ft \in Thresholds : \E wt \in Thresholds : \E m \in MinRecordings :
    \E b \in [1..2 -> {us \in UnitLists(Profiles) : Len(us) = 1 /\ us[1].ch = 0 /\ us[1].id = 1}] :
        /\ cfg = [DefaultCfg EXCEPT !.fr_corr_threshold = ft, !.wf_corr_threshold = wt,
                                    !.min_recordings = m]
        /\ recs = RecList(2)
        /\ disk = DiskOf(b, <<0, 1>>, <<>>)

\* cluster type and absent files: each recording has a good isolated unit 0 on
\* channel 0 and an unlabelled unit 1 on channel 1
FixedUnits ==
    << [id |-> 0, ch |-> 0, good |-> TRUE, iso |-> TRUE,
        raster |-> FileWith(CurveA), sort |-> FileWith(CurveA)],
       [id |-> 1, ch |-> 1, good |-> FALSE, iso |-> FALSE,
        raster |-> FileWith(CurveA), sort |-> FileWith(CurveA)] >>

InitFiles ==
    \E ct \in ClusterTypes : \E root \in BOOLEAN : \E n \in 0..2 :
    \E ex \in [1..n -> BOOLEAN] : \E hi \in [1..n -> BOOLEAN] :
        /\ cfg = [DefaultCfg EXCEPT !.cluster_type = ct]
        /\ recs = RecList(n)
        /\ disk = [DiskOf([r \in 1..n |-> FixedUnits], <<0, 1>>, <<>>) EXCEPT
                      !.data_root = root,
                      !.npclu = [r \in 1..n |-> NPcluFile(ex[r], hi[r], FixedUnits)]]

\* no run of the stitcher under study
StitchIdle ==
    /\ cfg = DefaultCfg
    /\ recs = <<>>
    /\ disk = DiskOf(<<>>, <<0, 1>>, <<>>)
    /\ pc = "idle"
    /\ error = "none"
    /\ clu_info_per_rec = <<>>
    /\ chan_map = <<>>
    /\ uni_chans = <<>>
    /\ chan_i = 1
    /\ prediction_list = <<>>
    /\ origin = <<>>
    /\ unique_stitch = <<>>
    /\ stitch_table = <<>>

\* no call of _pairwise_corr under study
CorrIdle == corr_args = [a |-> <<>>, b |-> <<>>] /\ corr_ret = <<>>

PsthIdle ==
    /\ psth_args = [spike_cell |-> <<>>, bn |-> <<0, 0>>, smoothing |-> 0]
    /\ psth_ret = <<>>

SiteIdle ==
    /\ sp = [temps |-> <<>>, pc_feat_ind |-> <<>>, clu |-> <<>>, pc_feat |-> <<>>, pc_chans |-> 0]
    /\ cids = <<>>
    /\ clu_pos = 1
    /\ max_site_list = <<>>
    /\ min_site_list = <<>>
    /\ site_pc = "idle"
    /\ clu_info = <<>>

TrialIdle ==
    /\ trial_args = [trials |-> <<>>, cluster_id |-> 0, event_field |-> "", bn |-> <<0, 0>>]
    /\ day_recs = <<>>
    /\ rec_pos = 1
    /\ spike_result = <<>>
    /\ trial_pc = "idle"

RasterIdle ==
    /\ raster_args = [trials |-> <<>>, task_cfg |-> "", raises |-> {}]
    /\ attempts = <<>>
    /\ raster_ret = <<>>
    /\ raster_pc = "idle"

SortIdle ==
    /\ sort_args = [rt |-> <<>>, spike_cell |-> <<>>]
    /\ sort_ret = <<>>
    /\ sort_pc = "idle"

ExtractIdle ==
    /\ ext_args = [task_trial_map |-> <<>>, raises |-> {}]
    /\ task_pos = 1
    /\ all_spikes = <<>>
    /\ all_rt = <<>>
    /\ all_owner = <<>>
    /\ ext_pc = "idle"

AuxIdle == CorrIdle /\ PsthIdle /\ SiteIdle /\ TrialIdle /\ RasterIdle /\ SortIdle /\ ExtractIdle

Init ==
    /\ \/ InitMatching
       \/ InitEndToEnd
       \/ InitNeighbours
       \/ InitThresholds
       \/ InitFiles
    /\ pc = "init"
    /\ error = "none"
    /\ clu_info_per_rec = <<>>
    /\ chan_map = <<>>
    /\ uni_chans = <<>>
    /\ chan_i = 1
    /\ prediction_list = <<>>
    /\ origin = <<>>
    /\ unique_stitch = <<>>
    /\ stitch_table = <<>>
    /\ AuxIdle

(***************************************************************************)
(* run()                                                                   *)
(***************************************************************************)
\* self.cfg.validate()
Validate ==
    /\ pc = "init"
    /\ pc' = IF disk.data_root THEN "validated" ELSE "raised"
    /\ error' = IF disk.data_root THEN "none" ELSE ErrDataRoot
    /\ UNCHANGED <<inputs, clu_info_per_rec, chan_map, uni_chans, chan_i,
                   prediction_list, origin, unique_stitch, stitch_table>>
    /\ UNCHANGED aux_vars

\* self._load_cluster_info()
LoadClusterInfo ==
    /\ pc = "validated"
    /\ LET res == LoadFrom(1, <<>>, {})
       IN  /\ clu_info_per_rec' = res.infos
           /\ chan_map' = IF Len(res.infos) > 0 THEN disk.channel_map ELSE <<>>
           /\ uni_chans' = IF res.err = "none" THEN SortedSeq(res.chans) ELSE <<>>
           /\ error' = res.err
           /\ pc' = IF res.err = "none" THEN "loaded" ELSE "raised"
    /\ UNCHANGED <<inputs, chan_i, prediction_list, origin, unique_stitch, stitch_table>>
    /\ UNCHANGED aux_vars

StitchChannelSkipsMatched ==
    /\ pc = "loaded"
    /\ chan_i <= Len(uni_chans)
    /\ LET rows == ChannelRows(uni_chans[chan_i])
           origins == ChannelOrigins(uni_chans[chan_i])
           Matched(j) == \E n \in 1..Len(prediction_list) :
                            prediction_list[n][origins[j].rec] = Num(origins[j].clu)
           kept == {j \in 1..Len(rows) : ~Matched(j)}
           idx == SortedSeq(kept)
       IN  /\ prediction_list' = prediction_list \o [j \in 1..Len(idx) |-> rows[idx[j]]]
           /\ origin' = origin \o [j \in 1..Len(idx) |-> origins[idx[j]]]
    /\ chan_i' = chan_i + 1
    /\ UNCHANGED <<inputs, pc, error, clu_info_per_rec, chan_map, uni_chans,
                   unique_stitch, stitch_table>>
    /\ UNCHANGED aux_vars

\* one iteration of "for current_chan in self.uni_chans"
StitchChannel ==
    /\ pc = "loaded"
    /\ chan_i <= Len(uni_chans)
    /\ prediction_list' = prediction_list \o ChannelRows(uni_chans[chan_i])
    /\ origin' = origin \o ChannelOrigins(uni_chans[chan_i])
    /\ chan_i' = chan_i + 1
    /\ UNCHANGED <<inputs, pc, error, clu_info_per_rec, chan_map, uni_chans,
                   unique_stitch, stitch_table>>
    /\ UNCHANGED aux_vars

\* the end of _run_stitching (deduplicate, filter) and the return of run()
FinishStitching ==
    /\ pc = "loaded"
    /\ chan_i > Len(uni_chans)
    /\ unique_stitch' = IF prediction_list = <<>> THEN <<>> ELSE Deduplicate(prediction_list)
    /\ stitch_table' = IF prediction_list = <<>> THEN <<>>
                       ELSE FilterMinRecs(Deduplicate(prediction_list))
    /\ pc' = "done"
    /\ UNCHANGED <<inputs, error, clu_info_per_rec, chan_map, uni_chans, chan_i,
                   prediction_list, origin>>
    /\ UNCHANGED aux_vars

Next ==
    \/ Validate
    \/ LoadClusterInfo
    \/ StitchChannel
    \/ FinishStitching

Spec == Init /\ [][Next]_vars

(***************************************************************************)
(* Properties                                                              *)
(***************************************************************************)
Filled(x) == x # NaN
Zeroed(row) == [r \in 1..Len(row) |-> IF Filled(row[r]) THEN row[r][1] ELSE 0]
SameRow(a, b) == Zeroed(a) = Zeroed(b)
Emitted == 1..Len(prediction_list)
OtherRecs(n) == (1..NumRecs) \ {origin[n].rec}

\* the index at which a row equal to row (missing read as 0) was first emitted
FirstEmitted(row) ==
    CHOOSE i \in Emitted :
        /\ SameRow(prediction_list[i], row)
        /\ \A j \in 1..(i - 1) : ~SameRow(prediction_list[j], row)

\* C1: after all channels are processed, emitted rows that are equal slot by
\* slot once missing entries are read as 0 collapse to one row of the
\* deduplicated table, that row is the one emitted first, and the surviving
\* rows keep the order in which they were first emitted.
C1_DedupKeepsFirstInOrder ==
    pc = "done" =>
        /\ \A i \in Emitted :
              Cardinality({n \in 1..Len(unique_stitch) :
                              SameRow(unique_stitch[n], prediction_list[i])}) = 1
        /\ \A n \in 1..Len(unique_stitch) :
              /\ \E i \in Emitted : SameRow(prediction_list[i], unique_stitch[n])
              /\ unique_stitch[n] = prediction_list[FirstEmitted(unique_stitch[n])]
        /\ \A m, n \in 1..Len(unique_stitch) :
              m < n => FirstEmitted(unique_stitch[m]) < FirstEmitted(unique_stitch[n])

\* two rows collapsed although one has a missing slot where the other has unit
\* 0, and the survivors are not in sorted row order
C1_Witness ==
    /\ pc = "done"
    /\ \E i, j \in Emitted :
          /\ i < j
          /\ SameRow(prediction_list[i], prediction_list[j])
          /\ prediction_list[i] # prediction_list[j]
    /\ \E m, n \in 1..Len(unique_stitch) :
          m < n /\ LexLess(Zeroed(unique_stitch[n]), Zeroed(unique_stitch[m]))

NonMissing(row) == Cardinality({r \in 1..Len(row) : Filled(row[r])})
TableRows == {stitch_table[n] : n \in 1..Len(stitch_table)}
UniqueRows == {unique_stitch[n] : n \in 1..Len(unique_stitch)}

\* C2: every row of the returned table has at least min_recordings
\* non-missing entries, and the table holds exactly the deduplicated rows
\* that have at least that many.
C2_FilterMinRecordings ==
    pc = "done" =>
        /\ \A row \in TableRows : NonMissing(row) >= cfg.min_recordings
        /\ TableRows = {row \in UniqueRows : NonMissing(row) >= cfg.min_recordings}

C2_Witness ==
    /\ pc = "done"
    /\ \E row \in TableRows : NonMissing(row) = cfg.min_recordings
    /\ \E row \in UniqueRows : NonMissing(row) < cfg.min_recordings

\* the correlations of emitted row n's unit with unit id of recording r
FrCorr(n, r, id) ==
    PairwiseCorr(GetFiringRate(origin[n].clu, recs[origin[n].rec]), GetFiringRate(id, recs[r]))
WfCorr(n, r, id) ==
    PairwiseCorr(GetWaveform(origin[n].clu, recs[origin[n].rec]), GetWaveform(id, recs[r]))

\* the neighbourhood candidates of recording r for emitted row n
Candidates(n, r) == AllClusterIds(origin[n].chan)[r]

\* the positions of the candidate of highest firing-rate correlation: the
\* first one among those no candidate exceeds; none when every one is NaN
Best(n, r) ==
    LET ids == Candidates(n, r)
        IsReal(j) == FrCorr(n, r, ids[j]).k = "real"
    IN  {j \in 1..Len(ids) :
            /\ IsReal(j)
            /\ \A h \in 1..Len(ids) :
                  IsReal(h) => ~CorrGt(FrCorr(n, r, ids[h]), FrCorr(n, r, ids[j]))
            /\ \A h \in 1..(j - 1) :
                  IsReal(h) => CorrGt(FrCorr(n, r, ids[j]), FrCorr(n, r, ids[h]))}

\* C3: in the rows a finished run emitted, where recording r' has a neighbourhood candidate, the r' slot of a
\* unit's row is filled, with the ID of the candidate of highest firing-rate
\* correlation, exactly when that candidate's firing-rate correlation is at
\* least fr_corr_threshold and its waveform correlation at least
\* wf_corr_threshold.
C3_MatchIffBothThresholds ==
    pc = "done" => \A n \in Emitted : \A r \in OtherRecs(n) :
        Len(Candidates(n, r)) > 0 =>
            LET ids == Candidates(n, r)
                pass == {j \in Best(n, r) :
                            /\ CorrGe(FrCorr(n, r, ids[j]), cfg.fr_corr_threshold)
                            /\ CorrGe(WfCorr(n, r, ids[j]), cfg.wf_corr_threshold)}
            IN  /\ Filled(prediction_list[n][r]) <=> pass # {}
                /\ \A j \in pass : prediction_list[n][r] = Num(ids[j])

\* thresholds 1.0 / 1.0: one slot filled by a candidate correlating 1.0 / 1.0
C3_Witness ==
    /\ pc = "done"
    /\ cfg.fr_corr_threshold = 100
    /\ cfg.wf_corr_threshold = 100
    /\ \E n \in Emitted : \E r \in OtherRecs(n) : Filled(prediction_list[n][r])

\* the candidates of recording r for row n whose firing-rate correlation is a number
RealCandidates(n, r) ==
    LET IsReal(id) == FrCorr(n, r, id).k = "real"
    IN  SelectSeq(Candidates(n, r), IsReal)

TheUnit(r) == clu_info_per_rec[r][1][1]
PairFr(r1, r2) ==
    PairwiseCorr(GetFiringRate(TheUnit(r1), recs[r1]), GetFiringRate(TheUnit(r2), recs[r2]))
PairWf(r1, r2) ==
    PairwiseCorr(GetWaveform(TheUnit(r1), recs[r1]), GetWaveform(TheUnit(r2), recs[r2]))
Correlated(r1, r2) ==
    /\ PairFr(r1, r2).k = "real" /\ CorrGe(PairFr(r1, r2), 100)
    /\ PairWf(r1, r2).k = "real" /\ CorrGe(PairWf(r1, r2), 100)

\* a finished run over 3 recordings with 1 unit each, all on one channel,
\* thresholds 0.85 / 0.85, min_recordings 2
EndToEnd ==
    /\ pc = "done"
    /\ NumRecs = 3
    /\ \A r \in 1..3 :
          /\ Len(clu_info_per_rec[r]) = 1
          /\ clu_info_per_rec[r][1][2] = clu_info_per_rec[1][1][2]
    /\ cfg.fr_corr_threshold = 85
    /\ cfg.wf_corr_threshold = 85
    /\ cfg.min_recordings = 2

\* C5: end to end, with all pairwise firing-rate and waveform correlations
\* 1.0, the table has exactly 1 row and that row holds all 3 unit IDs.
C5_EndToEndOneRow ==
    (EndToEnd /\ \A r1, r2 \in 1..3 : r1 # r2 => Correlated(r1, r2)) =>
        stitch_table = << [r \in 1..3 |-> Num(TheUnit(r))] >>

\* C6: end to end, with the unit of one recording x correlating below the
\* firing-rate threshold with the other two, the table holds the row of the
\* two correlated units with slot x missing.
C6_EndToEndOneUncorrelated ==
    \A x \in 1..3 :
        ( /\ EndToEnd
          /\ \A r \in (1..3) \ {x} :
                PairFr(x, r).k = "real" /\ ~CorrGe(PairFr(x, r), cfg.fr_corr_threshold)
          /\ \A r1, r2 \in (1..3) \ {x} : r1 # r2 => Correlated(r1, r2) ) =>
            \E row \in TableRows :
                \A r \in 1..3 : row[r] = IF r = x THEN NaN ELSE Num(TheUnit(r))

NoData(f) == ~f.exists \/ f.data = <<>>

ThresholdsInRange ==
    /\ cfg.fr_corr_threshold >= 0 /\ cfg.fr_corr_threshold <= 100
    /\ cfg.wf_corr_threshold >= 0 /\ cfg.wf_corr_threshold <= 100

\* C8: with a threshold outside [0, 1] the run raises at once: validation
\* does not pass, no stitching is done and no table is produced.
C8_ThresholdsValidated ==
    ~ThresholdsInRange => pc \in {"init", "raised"}

ClusterTypeValid == cfg.cluster_type \in {"All", "Good", "Isolated"}

\* C9: with a cluster_type other than 'All', 'Good' or 'Isolated' the run
\* returns no StitchResult, whatever the recordings and files.
C9_InvalidClusterTypeFatal ==
    ~ClusterTypeValid => pc # "done"

\* C10: with a valid configuration, an absent NPclu file never makes the run
\* fail.
C10_AbsentNPcluRecovered ==
    ( /\ disk.data_root
      /\ ClusterTypeValid
      /\ \A r \in 1..NumRecs : cfg.cluster_type = "Isolated" => disk.npclu[recs[r]].has_iso
      /\ \E r \in 1..NumRecs : ~disk.npclu[recs[r]].exists ) =>
        pc # "raised"

(***************************************************************************)
(* Properties of the channel loop of _run_stitching                        *)
(***************************************************************************)
\* the rows of recording r's cluster info whose channel index is in the channel map
MappedRows(r) ==
    {j \in 1..Len(clu_info_per_rec[r]) :
        clu_info_per_rec[r][j][2] >= 0 /\ clu_info_per_rec[r][j][2] < Len(chan_map)}

\* the channel ID unit row j of recording r is assigned to
AssignedChan(r, j) == chan_map[clu_info_per_rec[r][j][2] + 1]

\* the IDs of the units of recording r
UnitsOfRec(r) == {clu_info_per_rec[r][j][1] : j \in 1..Len(clu_info_per_rec[r])}

\* the rows emitted for unit id of recording r
RowsFor(r, id) == {n \in Emitted : origin[n].rec = r /\ origin[n].clu = id}

\* C21: a finished run has emitted exactly one row per (recording r, unit u
\* assigned to a channel c of the union set) pair, while processing c, the
\* channels having been visited in ascending channel-ID order; each row has
\* one slot per recording, holds u in slot r, and every other slot r' is
\* missing or holds the ID of a unit of recording r' that is among the
\* neighbourhood candidates of c.
C21_OneRowPerAssignedUnit ==
    pc = "done" =>
        /\ \A r \in 1..NumRecs : \A j \in MappedRows(r) :
              /\ Cardinality(RowsFor(r, clu_info_per_rec[r][j][1])) = 1
              /\ \A n \in RowsFor(r, clu_info_per_rec[r][j][1]) :
                    origin[n].chan = AssignedChan(r, j)
        /\ Len(prediction_list) = SeqSum([r \in 1..NumRecs |-> Cardinality(MappedRows(r))])
        /\ \A k \in 1..(Len(uni_chans) - 1) : uni_chans[k] < uni_chans[k + 1]
        /\ \A m, n \in Emitted : m < n => origin[m].chan <= origin[n].chan
        /\ \A n \in Emitted :
              /\ origin[n].chan \in {uni_chans[k] : k \in 1..Len(uni_chans)}
              /\ Len(prediction_list[n]) = NumRecs
              /\ prediction_list[n][origin[n].rec] = Num(origin[n].clu)
              /\ \A r \in OtherRecs(n) :
                    Filled(prediction_list[n][r]) =>
                        /\ Val(prediction_list[n][r]) \in UnitsOfRec(r)
                        /\ \E j \in 1..Len(Candidates(n, r)) :
                              Candidates(n, r)[j] = Val(prediction_list[n][r])

\* two recordings, rows emitted for two channels, a row with a matched slot
\* and a row with a missing slot
C21_Witness ==
    /\ pc = "done"
    /\ NumRecs = 2
    /\ Len(uni_chans) = 2
    /\ \E m, n \in Emitted : origin[m].chan < origin[n].chan
    /\ \E n \in Emitted : \E r \in OtherRecs(n) : Filled(prediction_list[n][r])
    /\ \E n \in Emitted : \E r \in OtherRecs(n) : ~Filled(prediction_list[n][r])

\* the IDs of the units of recording r assigned to channel ID ch
AssignedTo(r, ch) ==
    {clu_info_per_rec[r][j][1] : j \in {j \in MappedRows(r) : AssignedChan(r, j) = ch}}

\* electrode metadata is available for channel ch
HasElec(ch) == ch >= 0 /\ ch < Len(disk.elec_num)

\* the channels whose electrode number is within channel_range of that of c
ElecNeighbours(c) ==
    {ch \in 0..(Len(disk.elec_num) - 1) :
        /\ disk.elec_num[ch + 1] >= disk.elec_num[c + 1] - cfg.channel_range
        /\ disk.elec_num[ch + 1] <= disk.elec_num[c + 1] + cfg.channel_range}

CandidateSet(n, r) == {Candidates(n, r)[j] : j \in 1..Len(Candidates(n, r))}

\* C22: for each processed channel c the candidates gathered in every
\* recording are exactly the units whose assigned channel has an electrode
\* number within channel_range of that of c, or exactly the units assigned
\* to c when electrode metadata is unavailable; in both cases every unit
\* assigned to c is among the candidates, for any channel map.
C22_CandidatesAreNeighbourhood ==
    pc = "done" => \A n \in Emitted : \A r \in 1..NumRecs :
        LET c == origin[n].chan
        IN  /\ CandidateSet(n, r) =
                  IF HasElec(c) THEN UNION {AssignedTo(r, ch) : ch \in ElecNeighbours(c)}
                  ELSE AssignedTo(r, c)
            /\ AssignedTo(r, c) \subseteq CandidateSet(n, r)

\* the rows of the channel at position k of the union set, computed on their
\* own from the per-recording inputs (a private buffer)
PrivateBuffer(k) == ChannelRows(uni_chans[k])

\* the buffers of positions k..hi concatenated in ascending channel order
RECURSIVE MergeAscending(_, _)
MergeAscending(k, hi) ==
    IF k > hi THEN <<>> ELSE PrivateBuffer(k) \o MergeAscending(k + 1, hi)

RowsHolding(r, id) == {n \in 1..Len(stitch_table) : stitch_table[n][r] = Num(id)}

\* C28: in the table a run returns, a unit ID appears in at most one row of
\* the column of its recording: no unit is assigned to two stitched neurons.
C28_UnitInOneRow ==
    pc = "done" =>
        \A r \in 1..NumRecs : \A id \in UnitsOfRec(r) : Cardinality(RowsHolding(r, id)) <= 1

(***************************************************************************)
(* _pairwise_corr on its own: one call on arbitrary vectors                *)
(***************************************************************************)
MaxVecLen == 3     \* length of the vectors passed to _pairwise_corr

CorrValues == {NaN, Num(0), Num(1), Num(2)}
Vectors == UNION {[1..n -> CorrValues] : n \in 0..MaxVecLen}

corr_rest == <<stitch_vars, psth_vars, site_vars, trial_vars, raster_vars, sort_vars, extract_vars>>
CorrRestIdle == StitchIdle /\ PsthIdle /\ SiteIdle /\ TrialIdle /\ RasterIdle /\ SortIdle /\ ExtractIdle

InitCorr ==
    /\ CorrRestIdle
    /\ corr_args \in [a : Vectors, b : Vectors]
    /\ corr_ret = <<>>

\* one call of _pairwise_corr(a, b)
CallPairwiseCorr ==
    /\ corr_ret = <<>>
    /\ corr_ret' = <<PairwiseCorr(corr_args.a, corr_args.b)>>
    /\ UNCHANGED <<corr_rest, corr_args>>

NextCorr == CallPairwiseCorr

SpecCorr == InitCorr /\ [][NextCorr]_vars

CorrReturned == corr_ret # <<>>

\* the positions, within the shorter length, where both vectors hold a number
ValidPairs ==
    {i \in (DOMAIN corr_args.a) \cap (DOMAIN corr_args.b) :
        Filled(corr_args.a[i]) /\ Filled(corr_args.b[i])}

\* C11: _pairwise_corr returns NaN whenever fewer than 2 positions, within
\* the shorter length, hold a number in both vectors; in particular when an
\* input is empty or every entry is NaN.
C11_FewPairsGiveNaN ==
    CorrReturned =>
        /\ Cardinality(ValidPairs) < 2 => corr_ret[1] = CorrNaN
        /\ (corr_args.a = <<>> \/ corr_args.b = <<>>) => corr_ret[1] = CorrNaN
        /\ (\A i \in DOMAIN corr_args.a : corr_args.a[i] = NaN) => corr_ret[1] = CorrNaN
        /\ (\A i \in DOMAIN corr_args.b : corr_args.b[i] = NaN) => corr_ret[1] = CorrNaN

\* exactly one valid pair among three positions, the others spoiled by a NaN
\* on one side only
C11_Witness ==
    /\ CorrReturned
    /\ Len(corr_args.a) = 3 /\ Len(corr_args.b) = 3
    /\ Cardinality(ValidPairs) = 1
    /\ \E i \in 1..3 : corr_args.a[i] = NaN /\ Filled(corr_args.b[i])
    /\ \E i \in 1..3 : corr_args.b[i] = NaN /\ Filled(corr_args.a[i])
    /\ corr_ret[1] = CorrNaN

RECURSIVE SumOver(_, _)
SumOver(f, P) ==
    IF P = {} THEN 0
    ELSE LET i == CHOOSE i \in P : TRUE
         IN  f[i] + SumOver(f, P \ {i})

\* Pearson's r of the pairs (a[i], b[i]), i in P, from the deviations from
\* the mean (each scaled by the number of pairs); NaN where it is undefined
Pearson(a, b, P) ==
    LET n == Cardinality(P)
        sa == SumOver([i \in P |-> Val(a[i])], P)
        sb == SumOver([i \in P |-> Val(b[i])], P)
        da == [i \in P |-> n * Val(a[i]) - sa]
        db == [i \in P |-> n * Val(b[i]) - sb]
        sab == SumOver([i \in P |-> da[i] * db[i]], P)
        saa == SumOver([i \in P |-> da[i] * da[i]], P)
        sbb == SumOver([i \in P |-> db[i] * db[i]], P)
    IN  IF n < 2 \/ saa = 0 \/ sbb = 0 THEN CorrNaN ELSE CorrReal(sab, saa * sbb)

\* two correlation values are the same number, or both NaN
CorrSame(x, y) ==
    /\ x.k = y.k
    /\ x.k = "real" =>
          /\ (x.c > 0) = (y.c > 0)
          /\ (x.c < 0) = (y.c < 0)
          /\ x.c * x.c * y.d = y.c * y.c * x.d

IsOne(x) == x.k = "real" /\ x.c > 0 /\ x.c * x.c = x.d
IsMinusOne(x) == x.k = "real" /\ x.c < 0 /\ x.c * x.c = x.d
InUnitRange(x) == x.k = "real" /\ x.c * x.c <= x.d

\* a vector of length >= 2 without NaN whose entries are not all equal
Plain(v) ==
    /\ Len(v) >= 2
    /\ \A i \in DOMAIN v : Filled(v[i])
    /\ \E i, j \in DOMAIN v : v[i] # v[j]

\* some vector is constant over the valid pairs
ConstantOnValid ==
    \/ \A i, j \in ValidPairs : corr_args.a[i] = corr_args.a[j]
    \/ \A i, j \in ValidPairs : corr_args.b[i] = corr_args.b[j]

\* what C12 says apart from the range of the result
PearsonOfAlignedPairs ==
    /\ CorrSame(corr_ret[1], Pearson(corr_args.a, corr_args.b, ValidPairs))
    /\ (Plain(corr_args.a) /\ corr_args.b = corr_args.a) => IsOne(corr_ret[1])
    /\ \A c \in 0..4 :
          ( /\ Plain(corr_args.a)
            /\ corr_args.b = [i \in DOMAIN corr_args.a |-> Num(c - Val(corr_args.a[i]))] ) =>
              IsMinusOne(corr_ret[1])

\* C12 (amended): _pairwise_corr returns the Pearson correlation of exactly
\* the index-aligned pairs, within the shorter length, at which both values
\* are numbers: corr(a, a) = 1 and corr(a, c - a) = -1 for a NaN-free,
\* non-constant a of length >= 2, entries beyond the shorter length have no
\* effect, and the result is NaN when there are fewer than 2 such pairs or
\* one vector is constant over them, and lies in [-1, 1] otherwise.
C12_PearsonOrNaN ==
    CorrReturned =>
        /\ PearsonOfAlignedPairs
        /\ IF Cardinality(ValidPairs) < 2 \/ ConstantOnValid
           THEN corr_ret[1] = CorrNaN
           ELSE InUnitRange(corr_ret[1])

\* a is longer than b, its extra entry is a number, and the result is -1
C12_Witness ==
    /\ CorrReturned
    /\ Len(corr_args.a) > Len(corr_args.b)
    /\ Filled(corr_args.a[Len(corr_args.a)])
    /\ \E i \in ValidPairs : corr_args.a[i] # corr_args.b[i]
    /\ IsMinusOne(corr_ret[1])

\* C12 as stated: with at least 2 valid pairs the result always lies in [-1, 1]
C12_ResultAlwaysInRange ==
    CorrReturned =>
        /\ PearsonOfAlignedPairs
        /\ Cardinality(ValidPairs) >= 2 => InUnitRange(corr_ret[1])

(***************************************************************************)
(* psth (utils/psth.py) on its own: one call                               *)
(*                                                                         *)
(* Spike times are floats in ms, kept in ticks of 1 / TicksPerMs ms; the    *)
(* window ends are whole milliseconds; smoothing is in tenths of a         *)
(* millisecond.  The Gaussian window norm.pdf(k, 0, smoothing)             *)
(* is kept as the integer weight half_width + 1 - |k| (positive, even,     *)
(* peaked at 0), and NaN when smoothing is 0.  A rate entry holds          *)
(* 1000 * (z * window)[k]; the code divides it by n_tr.                    *)
(***************************************************************************)
MaxSpan == 2       \* stop - start of the windows passed to psth
TicksPerMs == 2    \* resolution of a spike time: spike times are floats in ms

psth_rest == <<stitch_vars, corr_vars, site_vars, trial_vars, raster_vars, sort_vars, extract_vars>>
PsthRestIdle == StitchIdle /\ CorrIdle /\ SiteIdle /\ TrialIdle /\ RasterIdle /\ SortIdle /\ ExtractIdle

\* np.concatenate of the non-empty trials
RECURSIVE Concatenate(_)
Concatenate(spike_cell) ==
    IF spike_cell = <<>> THEN <<>> ELSE Head(spike_cell) \o Concatenate(Tail(spike_cell))

\* x (in ticks) lies in the range np.histogram keeps: [start, stop], widened
\* to [start - 0.5, stop + 0.5] when start = stop
InRange(x, start, stop) ==
    IF start = stop
    THEN 2 * x >= (2 * start - 1) * TicksPerMs /\ 2 * x <= (2 * stop + 1) * TicksPerMs
    ELSE x >= start * TicksPerMs /\ x <= stop * TicksPerMs

\* the 0-based bin np.histogram(bins=n_bins, range=(start, stop)) puts x in:
\* n_bins bins of equal width over the range, the last one closed
BinOf(x, n_bins, start, stop) ==
    IF start = stop THEN ((2 * x - (2 * start - 1) * TicksPerMs) * n_bins) \div (2 * TicksPerMs)
                         - (IF 2 * x = (2 * stop + 1) * TicksPerMs THEN 1 ELSE 0)
    ELSE IF x = stop * TicksPerMs THEN n_bins - 1
    ELSE ((x - start * TicksPerMs) * n_bins) \div ((stop - start) * TicksPerMs)

\* np.histogram(xx, bins=n_bins, range=(start, stop))[0]
Histogram(xx, n_bins, start, stop) ==
    [j \in 1..n_bins |->
        Cardinality({i \in 1..Len(xx) :
            /\ InRange(xx[i], start, stop)
            /\ BinOf(xx[i], n_bins, start, stop) = j - 1})]

\* int(3 * smoothing), smoothing in tenths
HalfWidth(smoothing) == (3 * smoothing) \div 10

\* norm.pdf(kernel_x, 0, smoothing)
Window(smoothing) ==
    LET half_width == HalfWidth(smoothing)
    IN  [k \in 1..(2 * half_width + 1) |->
            IF smoothing = 0 THEN NaN
            ELSE LET x == k - 1 - half_width
                 IN  Num(half_width + 1 - (IF x < 0 THEN -x ELSE x))]

\* 1000.0 * np.convolve(z, window), mode 'full'
Convolve(z, window) ==
    [k \in 1..(Len(z) + Len(window) - 1) |->
        LET J == {j \in 1..Len(z) : k - j + 1 >= 1 /\ k - j + 1 <= Len(window)}
        IN  IF \E j \in J : IsNaN(window[k - j + 1]) THEN NaN
            ELSE Num(1000 * SumOver([j \in J |-> z[j] * Val(window[k - j + 1])], J))]

\* s[lo:hi] for 0 <= lo <= hi
Slice(s, lo, hi) == SubSeq(s, lo + 1, Min(hi, Len(s)))

Zeros(n) == [i \in 1..n |-> Num(0)]

PsthZerosShort(spike_cell, bn, smoothing) ==
    [rate |-> Zeros(bn[2] - bn[1]), n_tr |-> 0]

PsthUntrimmed(spike_cell, bn, smoothing) ==
    LET time_bins == bn[2] - bn[1] + 1
        z == Histogram(Concatenate(spike_cell), time_bins, bn[1], bn[2])
    IN  [rate |-> Convolve(z, Window(smoothing)), n_tr |-> Len(spike_cell)]

\* the branch of psth for n_tr = 0
PsthNoTrials(spike_cell, bn, smoothing) ==
    [rate |-> Zeros(bn[2] - bn[1] + 1), n_tr |-> 0]

PsthTrimmedFromStart(spike_cell, bn, smoothing) ==
    LET time_bins == bn[2] - bn[1] + 1
        z == Histogram(Concatenate(spike_cell), time_bins, bn[1], bn[2])
    IN  [rate |-> Slice(Convolve(z, Window(smoothing)), 0, time_bins), n_tr |-> Len(spike_cell)]

\* the rest of psth
PsthOfTrials(spike_cell, bn, smoothing) ==
    LET start == bn[1]
        stop == bn[2]
        time_bins == stop - start + 1           \* len(time_bins)
        xx == Concatenate(spike_cell)
        z == Histogram(xx, time_bins, start, stop)
        half_width == HalfWidth(smoothing)
        rate == Convolve(z, Window(smoothing))
    IN  [rate |-> Slice(rate, half_width, half_width + time_bins), n_tr |-> Len(spike_cell)]

\* psth(spike_cell, bn, smoothing)
Psth(spike_cell, bn, smoothing) ==
    IF Len(spike_cell) = 0 THEN PsthNoTrials(spike_cell, bn, smoothing)
    ELSE PsthOfTrials(spike_cell, bn, smoothing)

SpikeTimes == -3..5                \* ticks: -1.5 ms to 2.5 ms
TrialSpikes == UNION {[1..n -> SpikeTimes] : n \in 0..2}
SpikeCells == UNION {[1..n -> TrialSpikes] : n \in 0..2}
Windows == {<<start, start + span>> : start \in {-1, 0}, span \in 0..MaxSpan}
Smoothings == {0, 2, 5, 10}        \* 0, 0.2, 0.5, 1.0 ms: half_width 0, 0, 1, 3

InitPsth ==
    /\ PsthRestIdle
    /\ psth_args \in [spike_cell : SpikeCells, bn : Windows, smoothing : Smoothings]
    /\ psth_ret = <<>>

\* one call of psth
CallPsth ==
    /\ psth_ret = <<>>
    /\ psth_ret' = <<Psth(psth_args.spike_cell, psth_args.bn, psth_args.smoothing)>>
    /\ UNCHANGED <<psth_rest, psth_args>>

NextPsth == CallPsth

SpecPsth == InitPsth /\ [][NextPsth]_vars

PsthReturned == psth_ret # <<>>
WindowLen == psth_args.bn[2] - psth_args.bn[1] + 1

\* C13: called with zero trials, psth returns an all-zero rate array of
\* length stop - start + 1 and a trial count of 0, whatever the window and
\* the smoothing.
C13_ZeroTrialsZeroRate ==
    (PsthReturned /\ psth_args.spike_cell = <<>>) =>
        /\ Len(psth_ret[1].rate) = WindowLen
        /\ \A i \in 1..Len(psth_ret[1].rate) : psth_ret[1].rate[i] = Num(0)
        /\ psth_ret[1].n_tr = 0

\* zero trials, the longest window, and the smoothing for which the kernel is NaN
C13_Witness ==
    /\ PsthReturned
    /\ psth_args.spike_cell = <<>>
    /\ WindowLen = MaxSpan + 1
    /\ psth_args.smoothing = 0
    /\ psth_ret[1].rate = Zeros(MaxSpan + 1)

\* C14: for every list of trials, window with stop >= start and smoothing,
\* the rate array has length exactly stop - start + 1 and the trial count is
\* the number of per-trial lists passed in, empty ones included.
C14_RateLengthAndTrialCount ==
    PsthReturned =>
        /\ Len(psth_ret[1].rate) = WindowLen
        /\ psth_ret[1].n_tr = Len(psth_args.spike_cell)

\* an empty trial and a trial with a spike outside the window, a kernel wider
\* than the window, and a rate that is not zero everywhere
C14_Witness ==
    /\ PsthReturned
    /\ \E i, j \in DOMAIN psth_args.spike_cell :
          /\ psth_args.spike_cell[i] = <<>>
          /\ \E k \in DOMAIN psth_args.spike_cell[j] :
                psth_args.spike_cell[j][k] > psth_args.bn[2] * TicksPerMs
    /\ 2 * HalfWidth(psth_args.smoothing) + 1 > WindowLen
    /\ \E i \in DOMAIN psth_ret[1].rate :
          Filled(psth_ret[1].rate[i]) /\ Val(psth_ret[1].rate[i]) > 0

\* the pooled spike times and the histogram psth builds from them
PooledSpikes == Concatenate(psth_args.spike_cell)
PsthHistogram == Histogram(PooledSpikes, WindowLen, psth_args.bn[1], psth_args.bn[2])

\* the pooled spikes with start <= t <= stop
InsideWindow ==
    {i \in 1..Len(PooledSpikes) :
        /\ PooledSpikes[i] >= psth_args.bn[1] * TicksPerMs
        /\ PooledSpikes[i] <= psth_args.bn[2] * TicksPerMs}

\* floor(t - start), with t = stop in the last bin
OneMsBin(x) ==
    IF x = psth_args.bn[2] * TicksPerMs THEN WindowLen - 1
    ELSE (x - psth_args.bn[1] * TicksPerMs) \div TicksPerMs

\* C23: the histogram psth builds has bins exactly 1 ms wide: a pooled spike
\* with start <= t <= stop is counted in bin floor(t - start) (t = stop in
\* the last bin), a spike outside the window is not counted, and the total
\* of the histogram is the number of pooled spikes inside the window.
C23_OneMsHistogram ==
    (PsthReturned /\ psth_args.spike_cell # <<>>) =>
        /\ \A j \in 1..WindowLen :
              PsthHistogram[j] =
                  Cardinality({i \in InsideWindow : OneMsBin(PooledSpikes[i]) = j - 1})
        /\ SeqSum(PsthHistogram) = Cardinality(InsideWindow)

\* C24: psth trims the full convolution to its centre: output sample i is
\* the full convolution of the histogram with the kernel at index
\* i + half_width, the kernel is symmetric, and with a kernel of numbers a
\* single spike in bin k gives an output whose maximum is at index k only.
C24_TrimmedToCentre ==
    (PsthReturned /\ psth_args.spike_cell # <<>>) =>
        LET half_width == HalfWidth(psth_args.smoothing)
            window == Window(psth_args.smoothing)
            full == Convolve(PsthHistogram, window)
            rate == psth_ret[1].rate
        IN  /\ Len(rate) = WindowLen
            /\ \A i \in 0..(WindowLen - 1) : rate[i + 1] = full[i + half_width + 1]
            /\ \A k \in 1..Len(window) : window[k] = window[Len(window) + 1 - k]
            /\ \A k \in 0..(WindowLen - 1) :
                  ( /\ psth_args.smoothing > 0
                    /\ PsthHistogram = [j \in 1..WindowLen |-> IF j = k + 1 THEN 1 ELSE 0] ) =>
                      \A i \in 0..(WindowLen - 1) :
                          i # k => Val(rate[i + 1]) < Val(rate[k + 1])

\* one spike in the last bin of the longest window, under a kernel wider
\* than the window: the maximum is in the last sample
C24_Witness ==
    /\ PsthReturned
    /\ WindowLen = MaxSpan + 1
    /\ 2 * HalfWidth(psth_args.smoothing) + 1 > WindowLen
    /\ PsthHistogram = [j \in 1..WindowLen |-> IF j = WindowLen THEN 1 ELSE 0]
    /\ \A i \in 1..(WindowLen - 1) :
          Val(psth_ret[1].rate[i]) < Val(psth_ret[1].rate[WindowLen])

(***************************************************************************)
(* clus_channel_info (utils/channel_info.py): the loop over the units      *)
(*                                                                         *)
(* A template holds one sample per channel.  A spike's PC features on a    *)
(* local channel are kept as one boolean: some feature is non-zero.  A     *)
(* coverage ratio 1 - zeros / n is kept as the count n - zeros, and        *)
(* compared with a threshold exactly.                                      *)
(***************************************************************************)
NumSpikes == 2     \* spikes of the unit whose template and PC features vary
Alpha == 1         \* alpha = 1.0

site_rest == <<stitch_vars, corr_vars, psth_vars, trial_vars, raster_vars, sort_vars, extract_vars>>
SiteRestIdle == StitchIdle /\ CorrIdle /\ PsthIdle /\ TrialIdle /\ RasterIdle /\ SortIdle /\ ExtractIdle

\* np.where(spike_temps == clu_id)[0], as 1-based positions
MySpikes(clu_id) == {n \in 1..Len(sp.clu) : sp.clu[n] = clu_id}

\* temps[clu_id] and pc_feat_ind[clu_id] exist
InBounds(clu_id) == clu_id >= 0 /\ clu_id < Len(sp.temps) /\ clu_id < Len(sp.pc_feat_ind)

TmpInd(clu_id) == sp.pc_feat_ind[clu_id + 1]

\* np.sum(this_clu_wfs ** 2, axis=0)
PtpEnergy(clu_id) ==
    LET this_clu_temp == sp.temps[clu_id + 1]
        tmp_ind == TmpInd(clu_id)
    IN  [j \in 1..Len(tmp_ind) |->
            SeqSum([t \in 1..Len(this_clu_temp) |->
                       this_clu_temp[t][tmp_ind[j] + 1] * this_clu_temp[t][tmp_ind[j] + 1]])]

\* non_zeros_pc_ratios times the number of spikes of the unit
NonZerosPc(clu_id) ==
    LET n_local == Len(TmpInd(clu_id))
    IN  [ch \in 1..n_local |->
            IF ch <= Min(n_local, sp.pc_chans)
            THEN Cardinality({n \in MySpikes(clu_id) : sp.pc_feat[n][ch]})
            ELSE 0]

\* count / n >= num / den
RatioGe(count, n, num, den) == count * den >= num * n

MaxOf(s) == CHOOSE m \in {s[j] : j \in DOMAIN s} : \A j \in DOMAIN s : s[j] <= m

\* alpha * ptp_norm + (1 - alpha) * nzr_norm, times max_energy * max_nzr * n
CombinedScore(clu_id) ==
    LET ptp_energy == PtpEnergy(clu_id)
        counts == NonZerosPc(clu_id)
        max_energy == IF MaxOf(ptp_energy) > 0 THEN MaxOf(ptp_energy) ELSE 1
        max_nzr == IF MaxOf(counts) > 0 THEN MaxOf(counts) ELSE 1
    IN  [j \in DOMAIN ptp_energy |->
            Alpha * ptp_energy[j] * max_nzr + (1 - Alpha) * counts[j] * max_energy]

\* np.argmax / np.argmin restricted to the positions idx: the first extremum
ArgMaxAt(score, idx) ==
    CHOOSE j \in idx : /\ \A h \in idx : score[h] <= score[j]
                       /\ \A h \in idx : h < j => score[h] < score[j]
ArgMinAt(score, idx) ==
    CHOOSE j \in idx : /\ \A h \in idx : score[h] >= score[j]
                       /\ \A h \in idx : h < j => score[h] > score[j]

BestIdxNoVeto(clu_id) ==
    ArgMaxAt(CombinedScore(clu_id), DOMAIN CombinedScore(clu_id))

\* best_idx
BestIdx(clu_id) ==
    LET combined_score == CombinedScore(clu_id)
        counts == NonZerosPc(clu_id)
        n == Cardinality(MySpikes(clu_id))
        best_idx == ArgMaxAt(combined_score, DOMAIN combined_score)
        eligible == {j \in DOMAIN counts : RatioGe(counts[j], n, 1, 2)}
    IN  IF ~RatioGe(counts[best_idx], n, 1, 2) /\ eligible # {}
        THEN ArgMaxAt(combined_score, eligible)
        ELSE best_idx

\* worst_idx
WorstIdx(clu_id) ==
    LET ptp_energy == PtpEnergy(clu_id)
        counts == NonZerosPc(clu_id)
        n == Cardinality(MySpikes(clu_id))
        worst_idx == ArgMinAt(ptp_energy, DOMAIN ptp_energy)
        eligible == {j \in DOMAIN counts : RatioGe(counts[j], n, 1, 10) /\ ptp_energy[j] > 0}
    IN  IF ~RatioGe(counts[worst_idx], n, 1, 10) /\ eligible # {}
        THEN ArgMinAt(ptp_energy, eligible)
        ELSE worst_idx

\* one iteration of "for clu_id in cids"
ProfileUnit ==
    /\ site_pc = "loop"
    /\ clu_pos <= Len(cids)
    /\ LET clu_id == cids[clu_pos]
       IN  IF MySpikes(clu_id) = {}
           THEN /\ max_site_list' = Append(max_site_list, 0)
                /\ min_site_list' = Append(min_site_list, 0)
                /\ site_pc' = site_pc
           ELSE IF ~InBounds(clu_id)
           THEN /\ site_pc' = "raised"           \* IndexError
                /\ UNCHANGED <<max_site_list, min_site_list>>
           ELSE /\ max_site_list' = Append(max_site_list, TmpInd(clu_id)[BestIdx(clu_id)])
                /\ min_site_list' = Append(min_site_list, TmpInd(clu_id)[WorstIdx(clu_id)])
                /\ site_pc' = site_pc
    /\ clu_pos' = clu_pos + 1
    /\ UNCHANGED <<site_rest, sp, cids, clu_info>>

\* the return after the loop
ReturnSites ==
    /\ site_pc = "loop"
    /\ clu_pos > Len(cids)
    /\ site_pc' = "returned"
    /\ UNCHANGED <<site_rest, sp, cids, clu_pos, max_site_list, min_site_list, clu_info>>

\* np.unique(sp.clu)
UniqueClu == SortedSeq({sp.clu[n] : n \in 1..Len(sp.clu)})

\* extract_spikes after clus_channel_info returned:
\* clu_id = np.unique(sp.clu) + 1
\* clu_info = np.column_stack([clu_id, max_site[: len(clu_id)]])
BuildCluInfo ==
    /\ site_pc = "returned"
    /\ LET clu_id == [k \in 1..Len(UniqueClu) |-> UniqueClu[k] + 1]
           max_site == Slice(max_site_list, 0, Len(clu_id))
       IN  IF Len(max_site) # Len(clu_id)
           THEN /\ site_pc' = "stack_raised"     \* ValueError: the columns differ in length
                /\ clu_info' = clu_info
           ELSE /\ site_pc' = "saved"
                /\ clu_info' = [k \in 1..Len(clu_id) |-> <<clu_id[k], max_site[k]>>]
    /\ UNCHANGED <<site_rest, sp, cids, clu_pos, max_site_list, min_site_list>>

NextSite ==
    \/ ProfileUnit
    \/ ReturnSites
    \/ BuildCluInfo

Amps == {-2, 0, 1}
CidLists == {<<>>, <<0>>, <<0, 1>>, <<1, 0>>, <<2, 0>>, <<0, 2, 1>>}

\* two templates over channels 0..3; template 0 varies on its local channels
\* 2, 0, 3 (amp, in that order) and has a sample on channel 1, which is not
\* local; unit 0 has n0 spikes, of which the first nz[ch] have a non-zero PC
\* feature on local channel ch; unit 1 has one spike; unit 2, which has no
\* template, has one spike when has2
KsOutput(amp, n0, nz, has2, pc_chans) ==
    [temps |-> << << <<amp[2], 2, amp[1], amp[3]>> >>, << <<0, 1, 0, 0>> >> >>,
     pc_feat_ind |-> << <<2, 0, 3>>, <<1, 0, 2>> >>,
     clu |-> [n \in 1..n0 |-> 0] \o <<1>> \o (IF has2 THEN <<2>> ELSE <<>>),
     pc_feat |-> [n \in 1..n0 |-> [ch \in 1..pc_chans |-> n <= nz[ch]]]
                 \o << [ch \in 1..pc_chans |-> TRUE] >>
                 \o (IF has2 THEN << [ch \in 1..pc_chans |-> TRUE] >> ELSE <<>>),
     pc_chans |-> pc_chans]

InitSite ==
    /\ SiteRestIdle
    /\ \E amp \in [1..3 -> Amps] : \E n0 \in {0, NumSpikes} : \E nz \in [1..3 -> 0..NumSpikes] :
       \E has2 \in BOOLEAN : \E pc_chans \in {2, 3} :
          sp = KsOutput(amp, n0, nz, has2, pc_chans)
    /\ cids \in CidLists
    /\ clu_pos = 1
    /\ max_site_list = <<>>
    /\ min_site_list = <<>>
    /\ site_pc = "loop"
    /\ clu_info = <<>>

SpecSite == InitSite /\ [][NextSite]_vars

\* the units the loop has dealt with that have at least one spike
Profiled == {p \in 1..Len(max_site_list) : \E n \in 1..Len(sp.clu) : sp.clu[n] = cids[p]}

LocalChans(u) == sp.pc_feat_ind[u + 1]
NSpikesOf(u) == Cardinality({n \in 1..Len(sp.clu) : sp.clu[n] = u})

\* energy of unit u's template on its j-th local channel
Energy(u, j) ==
    LET c == LocalChans(u)[j] + 1
    IN  SeqSum([t \in 1..Len(sp.temps[u + 1]) |-> sp.temps[u + 1][t][c] * sp.temps[u + 1][t][c]])

\* spikes of unit u with a non-zero PC feature on its j-th local channel
Covering(u, j) ==
    IF j > sp.pc_chans THEN 0
    ELSE Cardinality({n \in 1..Len(sp.clu) : sp.clu[n] = u /\ sp.pc_feat[n][j]})

Covered(u, j) == 2 * Covering(u, j) >= NSpikesOf(u)

\* the first position of J with the highest energy (the normalized energy is
\* the combined score, alpha being 1)
TopOf(u, J) ==
    CHOOSE j \in J : /\ \A h \in J : Energy(u, h) <= Energy(u, j)
                     /\ \A h \in J : h < j => Energy(u, h) < Energy(u, j)

ClaimedBest(u) ==
    LET all == DOMAIN LocalChans(u)
        ok == {j \in all : Covered(u, j)}
    IN  IF Covered(u, TopOf(u, all)) \/ ok = {} THEN TopOf(u, all) ELSE TopOf(u, ok)

\* C15: for a unit with at least one spike the best channel is the channel
\* of maximum combined score, unless its PC coverage is below 0.5: then it
\* is the channel of maximum score among those with coverage >= 0.5, or the
\* unrestricted best when there is none.  A unit whose energy lies on one
\* channel with coverage >= 0.5 gets that channel.
C15_BestChannel ==
    \A p \in Profiled :
        LET u == cids[p]
        IN  /\ max_site_list[p] = LocalChans(u)[ClaimedBest(u)]
            /\ \A j \in DOMAIN LocalChans(u) :
                  ( /\ Energy(u, j) > 0
                    /\ \A h \in DOMAIN LocalChans(u) : h # j => Energy(u, h) = 0
                    /\ Covered(u, j) ) =>
                      max_site_list[p] = LocalChans(u)[j]

\* the channel of highest energy is vetoed, two others qualify, and the one
\* returned is not the first of them
C15_Witness ==
    /\ site_pc = "returned"
    /\ \E p \in Profiled :
          LET u == cids[p]
              all == DOMAIN LocalChans(u)
          IN  /\ ~Covered(u, TopOf(u, all))
              /\ \E j, h \in all :
                    /\ h < j /\ Covered(u, h) /\ Covered(u, j)
                    /\ Energy(u, h) < Energy(u, j)
                    /\ max_site_list[p] = LocalChans(u)[j]

\* a unit of the label file with spikes but no row in the PC-feature index table
OutOfBounds(u) ==
    /\ u >= Len(sp.pc_feat_ind)
    /\ \E n \in 1..Len(sp.clu) : sp.clu[n] = u

\* C16: a unit whose ID is out of bounds for the PC-feature index table
\* causes no error: it still receives a (best, worst) pair and the
\* remaining units are still processed.
C16_OutOfBoundsTolerated ==
    /\ site_pc # "raised"
    /\ \A p \in 1..(clu_pos - 1) :
          OutOfBounds(cids[p]) => Len(max_site_list) >= p /\ Len(min_site_list) >= p

\* the positions of cluster id (0-based ID) in the label file
PositionsOf(id) == {p \in 1..Len(cids) : cids[p] = id}

\* C30: in the cluster-info table written by extract_spikes every cluster ID
\* is paired with the best channel clus_channel_info computed for that same
\* cluster, whatever the labelled cluster IDs and the clusters with spikes.
C30_ClusterPairedWithOwnChannel ==
    site_pc = "saved" =>
        \A k \in 1..Len(clu_info) :
            /\ PositionsOf(clu_info[k][1] - 1) # {}
            /\ \A p \in PositionsOf(clu_info[k][1] - 1) : clu_info[k][2] = max_site_list[p]

(***************************************************************************)
(* trial_np_spike and _load_np_spike (trials/trial_spike.py)               *)
(*                                                                         *)
(* Event times and window ends are whole milliseconds, spike times whole   *)
(* samples.  A returned spike time (window_spikes - event_sample) * 1000   *)
(* / FS is kept exactly, as the fraction [num, den].                       *)
(***************************************************************************)
FS == 30000        \* Neuropixel sampling rate

trial_rest == <<stitch_vars, corr_vars, psth_vars, site_vars, raster_vars, sort_vars, extract_vars>>
TrialRestIdle == StitchIdle /\ CorrIdle /\ PsthIdle /\ SiteIdle /\ RasterIdle /\ SortIdle /\ ExtractIdle

Ms(num, den) == [num |-> num, den |-> den]

LoadNpSpikeHalfOpen(npclu, events, subtrial, event_field, bn, cluster_id) ==
    LET event_times == events.fields[event_field]
        idx == IF subtrial > 0 THEN subtrial - 1 ELSE 0
        event_sample == (Val(event_times[idx + 1]) * FS) \div 1000
        start_sample == event_sample + (bn[1] * FS) \div 1000
        end_sample == event_sample + (bn[2] * FS) \div 1000
        Wanted(row) == row[2] = cluster_id /\ row[1] >= start_sample /\ row[1] < end_sample
        window_spikes == SelectSeq(npclu, Wanted)
    IN  IF Len(npclu) = 0 THEN <<>>
        ELSE IF event_field \notin DOMAIN events.fields THEN <<>>
        ELSE IF idx >= Len(event_times) THEN <<>>
        ELSE IF IsNaN(event_times[idx + 1]) \/ Val(event_times[idx + 1]) = 0 THEN <<>>
        ELSE [j \in 1..Len(window_spikes) |->
                 Ms((window_spikes[j][1] - event_sample) * 1000, FS)]

LoadNpSpikeZeroIsTime(npclu, events, subtrial, event_field, bn, cluster_id) ==
    LET event_times == events.fields[event_field]
        idx == IF subtrial > 0 THEN subtrial - 1 ELSE 0
        event_sample == (Val(event_times[idx + 1]) * FS) \div 1000
        start_sample == event_sample + (bn[1] * FS) \div 1000
        end_sample == event_sample + (bn[2] * FS) \div 1000
        Wanted(row) == row[2] = cluster_id /\ row[1] >= start_sample /\ row[1] <= end_sample
        window_spikes == SelectSeq(npclu, Wanted)
    IN  IF Len(npclu) = 0 THEN <<>>
        ELSE IF event_field \notin DOMAIN events.fields THEN <<>>
        ELSE IF idx >= Len(event_times) THEN <<>>
        ELSE IF IsNaN(event_times[idx + 1]) THEN <<>>
        ELSE [j \in 1..Len(window_spikes) |->
                 Ms((window_spikes[j][1] - event_sample) * 1000, FS)]

\* idx = int(subtrial) - 1 if int(subtrial) > 0 else 0
EventIndex(subtrial) == IF subtrial > 0 THEN subtrial - 1 ELSE 0

\* _load_np_spike
LoadNpSpike(npclu, events, subtrial, event_field, bn, cluster_id) ==
    LET event_times == events.fields[event_field]
        idx == EventIndex(subtrial)
        event_sample == (Val(event_times[idx + 1]) * FS) \div 1000
        start_sample == event_sample + (bn[1] * FS) \div 1000
        end_sample == event_sample + (bn[2] * FS) \div 1000
        Wanted(row) == row[2] = cluster_id /\ row[1] >= start_sample /\ row[1] <= end_sample
        window_spikes == SelectSeq(npclu, Wanted)
    IN  IF Len(npclu) = 0 THEN <<>>
        ELSE IF event_field \notin DOMAIN events.fields THEN <<>>
        ELSE IF idx >= Len(event_times) THEN <<>>
        ELSE IF IsNaN(event_times[idx + 1]) \/ Val(event_times[idx + 1]) = 0 THEN <<>>
        ELSE [j \in 1..Len(window_spikes) |->
                 Ms((window_spikes[j][1] - event_sample) * 1000, FS)]

\* trials[i_tr].get("Trial", i_tr), i_tr being 0-based
Subtrial(i) ==
    LET t == trial_args.trials[i]
    IN  IF t.has_trial THEN t.Trial ELSE i - 1

\* the first lines of trial_np_spike
StartTrialNpSpike ==
    /\ trial_pc = "called"
    /\ spike_result' = [i \in 1..Len(trial_args.trials) |-> <<>>]
    /\ trial_pc' = IF trial_args.trials = <<>> THEN "returned" ELSE "loop"
    /\ UNCHANGED <<trial_rest, trial_args, day_recs, rec_pos>>

\* one iteration of "for rec in all_recs"
ProcessRec ==
    /\ trial_pc = "loop"
    /\ rec_pos <= Len(day_recs)
    /\ LET rec == day_recs[rec_pos]
           rec_trial_indices == {i \in 1..Len(trial_args.trials) :
                                    trial_args.trials[i].Rec = rec.name}
       IN  spike_result' =
               IF rec_trial_indices = {} \/ ~rec.events.exists \/ ~rec.npclu.exists
               THEN spike_result
               ELSE [i \in 1..Len(spike_result) |->
                       IF i \in rec_trial_indices
                       THEN LoadNpSpike(rec.npclu.rows, rec.events, Subtrial(i),
                                        trial_args.event_field, trial_args.bn,
                                        trial_args.cluster_id)
                       ELSE spike_result[i]]
    /\ rec_pos' = rec_pos + 1
    /\ UNCHANGED <<trial_rest, trial_args, day_recs, trial_pc>>

\* return spike_result
ReturnSpikes ==
    /\ trial_pc = "loop"
    /\ rec_pos > Len(day_recs)
    /\ trial_pc' = "returned"
    /\ UNCHANGED <<trial_rest, trial_args, day_recs, rec_pos, spike_result>>

NextTrial ==
    \/ StartTrialNpSpike
    \/ ProcessRec
    \/ ReturnSpikes

EventTimes == {NaN, Num(0), Num(2)}     \* NaN and 0: the event did not occur
EventTables ==
    {[exists |-> FALSE, fields |-> [Go |-> <<>>]]}
    \cup {[exists |-> TRUE, fields |-> [Go |-> <<Num(2), Num(2)>>]]}
    \cup {[exists |-> TRUE, fields |-> [TargsOn |-> t]] : t \in [1..2 -> EventTimes]}

\* NPclu rows (spike time in samples, cluster ID); 2 ms is sample 60
SpikeRows ==
    << <<29, 1>>, <<90, 1>>, <<45, 2>>, <<30, 1>>, <<91, 1>>, <<60, 2>>, <<61, 1>> >>
SpikeTables ==
    {[exists |-> FALSE, rows |-> <<>>], [exists |-> TRUE, rows |-> <<>>],
     [exists |-> TRUE, rows |-> SpikeRows]}

FullRec(name) ==
    [name |-> name, events |-> [exists |-> TRUE, fields |-> [TargsOn |-> <<Num(2), Num(2)>>]],
     npclu |-> [exists |-> TRUE, rows |-> SpikeRows]]
SecondRecs ==
    {FullRec("009"),
     [FullRec("009") EXCEPT !.events = [exists |-> FALSE, fields |-> [Go |-> <<>>]]],
     [FullRec("009") EXCEPT !.npclu = [exists |-> FALSE, rows |-> <<>>]]}

\* a trial: its recording, and its 1-based index in it when it has one
TrialDicts ==
    {[Rec |-> r, has_trial |-> TRUE, Trial |-> n] : r \in {"007", "009", "010"}, n \in 0..3}
    \cup {[Rec |-> r, has_trial |-> FALSE, Trial |-> 0] : r \in {"007", "009", "010"}}
TrialLists == UNION {[1..n -> TrialDicts] : n \in 0..2}

InitTrial ==
    /\ TrialRestIdle
    /\ trial_args \in [trials : TrialLists, cluster_id : {1, 2}, event_field : {"TargsOn"},
                        bn : {<<-1, 1>>, <<0, 1>>}]
    /\ \E ev \in EventTables : \E np \in SpikeTables : \E second \in SecondRecs :
          day_recs = << [name |-> "007", events |-> ev, npclu |-> np], second >>
    /\ rec_pos = 1
    /\ spike_result = <<>>
    /\ trial_pc = "called"

SpecTrial == InitTrial /\ [][NextTrial]_vars

TrialCount == Len(trial_args.trials)

\* the recordings on disk that trial i belongs to
RecsOf(i) == {r \in 1..Len(day_recs) : day_recs[r].name = trial_args.trials[i].Rec}

\* trial i has no recording on disk, or its recording lacks a table
NoTables(i) ==
    \A r \in RecsOf(i) : ~day_recs[r].events.exists \/ ~day_recs[r].npclu.exists

\* the 1-based position of trial i's timestamp in its recording's event array
StampAt(i) ==
    LET t == trial_args.trials[i]
        local == IF t.has_trial THEN t.Trial ELSE i - 1
    IN  IF local > 0 THEN local ELSE 1

\* trial i's recording r has no usable timestamp: missing, NaN or zero
NoStamp(i, r) ==
    LET f == day_recs[r].events.fields
    IN  \/ trial_args.event_field \notin DOMAIN f
        \/ StampAt(i) > Len(f[trial_args.event_field])
        \/ f[trial_args.event_field][StampAt(i)] \in {NaN, Num(0)}

\* C17: trial_np_spike returns one array per input trial, and the array of
\* a trial is empty whenever its recording has no event table or no spike
\* table, or its event timestamp is missing, NaN or exactly zero.
C17_OneArrayPerTrial ==
    trial_pc = "returned" =>
        /\ Len(spike_result) = TrialCount
        /\ \A i \in 1..TrialCount :
              (NoTables(i) \/ \A r \in RecsOf(i) : NoStamp(i, r)) => spike_result[i] = <<>>

\* two trials of one recording: the first has a zero timestamp and an empty
\* array, the second has spikes
C17_Witness ==
    /\ trial_pc = "returned"
    /\ TrialCount = 2
    /\ trial_args.trials[1].Rec = trial_args.trials[2].Rec
    /\ ~NoTables(1)
    /\ \E r \in RecsOf(1) :
          /\ trial_args.event_field \in DOMAIN day_recs[r].events.fields
          /\ StampAt(1) <= Len(day_recs[r].events.fields[trial_args.event_field])
          /\ day_recs[r].events.fields[trial_args.event_field][StampAt(1)] = Num(0)
    /\ spike_result[1] = <<>>
    /\ spike_result[2] # <<>>

\* trial i has tables and a valid event time in recording r
ValidEvent(i, r) ==
    /\ r \in RecsOf(i)
    /\ day_recs[r].events.exists /\ day_recs[r].npclu.exists
    /\ ~NoStamp(i, r)

EventMs(i, r) == Val(day_recs[r].events.fields[trial_args.event_field][StampAt(i)])

\* the rows of recording r holding a spike of the requested cluster within
\* [e + start_ms, e + stop_ms], compared in units of 1 / (1000 * FS) s
InWindow(i, r) ==
    LET InW(row) ==
            /\ row[2] = trial_args.cluster_id
            /\ row[1] * 1000 >= (EventMs(i, r) + trial_args.bn[1]) * FS
            /\ row[1] * 1000 <= (EventMs(i, r) + trial_args.bn[2]) * FS
    IN  SelectSeq(day_recs[r].npclu.rows, InW)

\* C18: for a trial with a valid event time e the array holds exactly the
\* spikes of the requested cluster whose time lies in the closed window
\* [e + start_ms, e + stop_ms], each as milliseconds relative to e: every
\* value lies in [start_ms, stop_ms], there are as many values as such
\* spikes, and no spike of another cluster is reported.
C18_SpikesInClosedWindow ==
    trial_pc = "returned" =>
        \A i \in 1..TrialCount : \A r \in 1..Len(day_recs) :
            ValidEvent(i, r) =>
                LET want == InWindow(i, r)
                    got == spike_result[i]
                IN  /\ Len(got) = Len(want)
                    /\ \A j \in 1..Len(got) :
                          /\ got[j].den > 0
                          /\ got[j].num * FS = (want[j][1] * 1000 - EventMs(i, r) * FS) * got[j].den
                          /\ got[j].num >= trial_args.bn[1] * got[j].den
                          /\ got[j].num <= trial_args.bn[2] * got[j].den

\* a spike on each end of the window is reported, while the recording also
\* holds a spike of the cluster outside the window and one of another
\* cluster inside it
C18_Witness ==
    /\ trial_pc = "returned"
    /\ \E i \in 1..TrialCount : \E r \in 1..Len(day_recs) :
          /\ ValidEvent(i, r)
          /\ \E j, h \in 1..Len(spike_result[i]) :
                /\ spike_result[i][j].num = trial_args.bn[1] * spike_result[i][j].den
                /\ spike_result[i][h].num = trial_args.bn[2] * spike_result[i][h].den
          /\ Len(spike_result[i]) < Len(day_recs[r].npclu.rows)
          /\ \E n \in 1..Len(day_recs[r].npclu.rows) :
                LET row == day_recs[r].npclu.rows[n]
                IN  /\ row[2] # trial_args.cluster_id
                    /\ row[1] * 1000 >= (EventMs(i, r) + trial_args.bn[1]) * FS
                    /\ row[1] * 1000 <= (EventMs(i, r) + trial_args.bn[2]) * FS

\* trial i's recording is on disk with an event table holding the event
\* field and a non-empty spike table, so that _load_np_spike reads an entry
\* of the event array for it
ReadsEvent(i) ==
    \E r \in RecsOf(i) :
        /\ day_recs[r].events.exists
        /\ day_recs[r].npclu.exists
        /\ day_recs[r].npclu.rows # <<>>
        /\ trial_args.event_field \in DOMAIN day_recs[r].events.fields

\* C27: a trial with 1-based local index k reads entry k - 1 of the event
\* array of its recording, and two trials of one recording with different
\* local indices never read the same entry.
C27_OwnEventEntry ==
    trial_pc = "returned" =>
        /\ \A i \in 1..TrialCount :
              (ReadsEvent(i) /\ trial_args.trials[i].has_trial /\ trial_args.trials[i].Trial >= 1) =>
                  EventIndex(Subtrial(i)) = trial_args.trials[i].Trial - 1
        /\ \A i, j \in 1..TrialCount :
              ( /\ ReadsEvent(i) /\ ReadsEvent(j)
                /\ trial_args.trials[i].Rec = trial_args.trials[j].Rec
                /\ Subtrial(i) # Subtrial(j) ) =>
                  EventIndex(Subtrial(i)) # EventIndex(Subtrial(j))

(***************************************************************************)
(* _extract_task_rasters (analysis/extract_rasters.py)                     *)
(*                                                                         *)
(* trial_np_spike is a callee here: with an event in raster_args.raises it *)
(* raises, otherwise it returns, for each trial, the one-entry array       *)
(* <<event, trial position>> standing for the spikes aligned to that event.*)
(* A missing field of a trial dict is <<>>.                                *)
(***************************************************************************)
None == "None"

raster_rest == <<stitch_vars, corr_vars, psth_vars, site_vars, trial_vars, sort_vars, extract_vars>>
RasterRestIdle == StitchIdle /\ CorrIdle /\ PsthIdle /\ SiteIdle /\ TrialIdle /\ SortIdle /\ ExtractIdle

\* the TaskTypeConfig entries of TASK_TYPES that differ in shape, and one
\* with a fallback event whose reaction-time fallback is only half declared
TaskTypes ==
    [CO |-> [primary_event |-> "TargsOn", fallback_event |-> "disTargsOn",
             rt_event |-> "SaccStart", rt_baseline |-> "TargsOn",
             rt_fallback_event |-> "SaccStart", rt_fallback_baseline |-> "disTargsOn"],
     Reach |-> [primary_event |-> "ReachStart", fallback_event |-> None,
                rt_event |-> "ReachStart", rt_baseline |-> "TargsOn",
                rt_fallback_event |-> None, rt_fallback_baseline |-> None],
     GAF |-> [primary_event |-> "disTargsOn", fallback_event |-> "TargsOn",
              rt_event |-> "SaccStart", rt_baseline |-> "disGo",
              rt_fallback_event |-> "SaccStart", rt_fallback_baseline |-> "Go"],
     Null |-> [primary_event |-> "Pulse_start", fallback_event |-> None,
               rt_event |-> "", rt_baseline |-> "",
               rt_fallback_event |-> None, rt_fallback_baseline |-> None],
     Custom |-> [primary_event |-> "Go", fallback_event |-> "TargsOn",
                 rt_event |-> "SaccStart", rt_baseline |-> "Go",
                 rt_fallback_event |-> None, rt_fallback_baseline |-> "TargsOn"]]

TaskCfg == TaskTypes[raster_args.task_cfg]

\* Python truthiness of an optional string
Truthy(x) == x # None /\ x # ""

OrSecond(x, y) == y

\* x or y
Or(x, y) == IF Truthy(x) THEN x ELSE y

\* trial_np_spike(trials, ..., event, ...) when it does not raise
TrialNpSpike(trials, event) == [i \in 1..Len(trials) |-> << <<event, i>> >>]

\* _compute_rt
ComputeRt(trials, event_field, baseline_field) ==
    IF ~Truthy(event_field) \/ ~Truthy(baseline_field) THEN <<>>
    ELSE [i \in 1..Len(trials) |->
            LET ev == trials[i][event_field]
                bl == trials[i][baseline_field]
            IN  IF ev # <<>> /\ bl # <<>> THEN Num(Val(ev) - Val(bl)) ELSE NaN]

\* the try block
TryPrimary ==
    /\ raster_pc = "try"
    /\ attempts' = Append(attempts, TaskCfg.primary_event)
    /\ IF TaskCfg.primary_event \in raster_args.raises
       THEN /\ raster_pc' = "except"
            /\ UNCHANGED raster_ret
       ELSE /\ raster_ret' = << [spikes |-> TrialNpSpike(raster_args.trials, TaskCfg.primary_event),
                                 rt |-> ComputeRt(raster_args.trials, TaskCfg.rt_event,
                                                  TaskCfg.rt_baseline)] >>
            /\ raster_pc' = "returned"
    /\ UNCHANGED <<raster_rest, raster_args>>

\* the except block, with a fallback event
TryFallback ==
    /\ raster_pc = "except"
    /\ Truthy(TaskCfg.fallback_event)
    /\ attempts' = Append(attempts, TaskCfg.fallback_event)
    /\ IF TaskCfg.fallback_event \in raster_args.raises
       THEN /\ raster_pc' = "raised"            \* nothing catches it
            /\ UNCHANGED raster_ret
       ELSE LET fb_event == Or(TaskCfg.rt_fallback_event, TaskCfg.rt_event)
                fb_base == Or(TaskCfg.rt_fallback_baseline, TaskCfg.rt_baseline)
            IN  /\ raster_ret' =
                      << [spikes |-> TrialNpSpike(raster_args.trials, TaskCfg.fallback_event),
                          rt |-> ComputeRt(raster_args.trials, fb_event, fb_base)] >>
                /\ raster_pc' = "returned"
    /\ UNCHANGED <<raster_rest, raster_args>>

\* the except block, without a fallback event
GiveUp ==
    /\ raster_pc = "except"
    /\ ~Truthy(TaskCfg.fallback_event)
    /\ raster_ret' = << [spikes |-> [i \in 1..Len(raster_args.trials) |-> <<>>], rt |-> <<>>] >>
    /\ raster_pc' = "returned"
    /\ UNCHANGED <<raster_rest, raster_args, attempts>>

NextRaster ==
    \/ TryPrimary
    \/ TryFallback
    \/ GiveUp

\* trial dicts: SaccStart, TargsOn and disTargsOn may be missing; the caller
\* passes at least one trial
RasterTrials ==
    {[TargsOn |-> a, disTargsOn |-> b, SaccStart |-> c, Go |-> Num(3), disGo |-> Num(4),
      ReachStart |-> Num(6), Pulse_start |-> Num(0)] :
        a \in {<<>>, Num(1)}, b \in {<<>>, Num(2)}, c \in {<<>>, Num(5)}}

InitRaster ==
    /\ RasterRestIdle
    /\ raster_args \in [trials : UNION {[1..n -> RasterTrials] : n \in 1..2},
                         task_cfg : DOMAIN TaskTypes,
                         raises : SUBSET {"TargsOn", "disTargsOn", "Go", "ReachStart", "Pulse_start"}]
    /\ attempts = <<>>
    /\ raster_ret = <<>>
    /\ raster_pc = "try"

SpecRaster == InitRaster /\ [][NextRaster]_vars

PrimaryFailed == TaskCfg.primary_event \in raster_args.raises
HasFallback == TaskCfg.fallback_event # None
RasterTrialCount == Len(raster_args.trials)

\* the spike arrays are the ones aligned to event, one per trial
AlignedTo(event) ==
    /\ Len(raster_ret[1].spikes) = RasterTrialCount
    /\ \A i \in 1..RasterTrialCount : raster_ret[1].spikes[i] = << <<event, i>> >>

\* the reaction times are event - baseline per trial, NaN where a field is
\* missing, and there are none when no field is named
RtFrom(event, baseline) ==
    IF event = "" \/ baseline = "" THEN raster_ret[1].rt = <<>>
    ELSE /\ Len(raster_ret[1].rt) = RasterTrialCount
         /\ \A i \in 1..RasterTrialCount :
               LET t == raster_args.trials[i]
               IN  raster_ret[1].rt[i] =
                       IF t[event] = <<>> \/ t[baseline] = <<>> THEN NaN
                       ELSE Num(t[event][1] - t[baseline][1])

C20_FailureGivesEmptyAndNaN ==
    /\ raster_pc # "raised"
    /\ (raster_pc = "returned" /\ PrimaryFailed /\ ~HasFallback) =>
          /\ raster_ret[1].spikes = [i \in 1..RasterTrialCount |-> <<>>]
          /\ raster_ret[1].rt = [i \in 1..RasterTrialCount |-> NaN]

(***************************************************************************)
(* sort_spikes_by_rt (utils/sorting_utils.py) on its own: one call         *)
(*                                                                         *)
(* np.argsort (default kind, not stable) returns a permutation that puts   *)
(* the values in ascending order, NaN last; the order it gives to equal    *)
(* values is not specified, so the call may use any such permutation.      *)
(***************************************************************************)
MaxTrials == 3     \* length of the rt array and of the spike list

sort_rest == <<stitch_vars, corr_vars, psth_vars, site_vars, trial_vars, raster_vars, extract_vars>>
SortRestIdle == StitchIdle /\ CorrIdle /\ PsthIdle /\ SiteIdle /\ TrialIdle /\ RasterIdle /\ ExtractIdle

\* a <= b in the order np.argsort sorts by: NaN after every number
RtLeq(a, b) == IsNaN(b) \/ (~IsNaN(a) /\ Val(a) <= Val(b))

\* the permutations of the positions 1..n
PermsOf(n) == {p \in [1..n -> 1..n] : \A i, j \in 1..n : i # j => p[i] # p[j]}

\* the values np.argsort(rt) can return (1-based positions)
ArgSort(rt) ==
    {p \in PermsOf(Len(rt)) : \A k \in 1..(Len(rt) - 1) : RtLeq(rt[p[k]], rt[p[k + 1]])}

RtValues == {NaN, Num(1), Num(2)}
RtArrays == UNION {[1..n -> RtValues] : n \in 0..MaxTrials}
TrialArrays == {<<>>, <<10>>, <<20, 30>>}
SpikeLists == UNION {[1..n -> TrialArrays] : n \in 0..MaxTrials}

InitSort ==
    /\ SortRestIdle
    /\ sort_args \in [rt : RtArrays, spike_cell : SpikeLists]
    /\ sort_ret = <<>>
    /\ sort_pc = "called"

\* one call of sort_spikes_by_rt(rt, spike_cell)
CallSortSpikesByRt ==
    /\ sort_pc = "called"
    /\ LET rt == sort_args.rt
           spike_cell == sort_args.spike_cell
       IN  IF Len(rt) = 0
           THEN /\ sort_ret' = <<[sorted_rt |-> <<>>, sorted_spx |-> spike_cell]>>
                /\ sort_pc' = "returned"
           ELSE \E sort_idx \in ArgSort(rt) :
                   IF \E k \in 1..Len(sort_idx) : sort_idx[k] > Len(spike_cell)
                   THEN /\ sort_ret' = <<>>               \* spike_cell[i]: IndexError
                        /\ sort_pc' = "raised"
                   ELSE /\ sort_ret' =
                               <<[sorted_rt |-> [k \in 1..Len(rt) |-> rt[sort_idx[k]]],
                                  sorted_spx |-> [k \in 1..Len(rt) |-> spike_cell[sort_idx[k]]]]>>
                        /\ sort_pc' = "returned"
    /\ UNCHANGED <<sort_rest, sort_args>>

NextSort == CallSortSpikesByRt

SpecSort == InitSort /\ [][NextSort]_vars

SortReturned == sort_pc = "returned"

\* C25: for every rt array and spike list, sort_spikes_by_rt returns: it
\* gives back the reaction times in ascending order and the per-trial spike
\* lists reordered by one permutation of all the input trials, so that every
\* input trial appears exactly once; with an empty rt the spike list comes
\* back unchanged.
C25_SortedByOnePermutation ==
    /\ sort_pc # "raised"
    /\ SortReturned =>
          LET rt == sort_args.rt
              spike_cell == sort_args.spike_cell
              out == sort_ret[1]
          IN  IF Len(rt) = 0 THEN out.sorted_spx = spike_cell
              ELSE /\ \A k \in 1..(Len(out.sorted_rt) - 1) :
                         RtLeq(out.sorted_rt[k], out.sorted_rt[k + 1])
                   /\ \E p \in PermsOf(Len(spike_cell)) :
                         /\ Len(out.sorted_spx) = Len(spike_cell)
                         /\ Len(out.sorted_rt) = Len(spike_cell)
                         /\ \A k \in 1..Len(spike_cell) :
                               /\ out.sorted_spx[k] = spike_cell[p[k]]
                               /\ out.sorted_rt[k] = rt[p[k]]

(***************************************************************************)
(* extract_rasters (analysis/extract_rasters.py): the loop over TASK_TYPES *)
(* that assembles the raster of one cluster                                *)
(***************************************************************************)
extract_rest == <<stitch_vars, corr_vars, psth_vars, site_vars, trial_vars, raster_vars, sort_vars>>
ExtractRestIdle == StitchIdle /\ CorrIdle /\ PsthIdle /\ SiteIdle /\ TrialIdle /\ RasterIdle /\ SortIdle

\* the task types of TASK_TYPES modelled, in list order
TaskOrder == <<"CO", "Reach", "GAF", "Null">>

\* _extract_task_rasters(trials, ..., task_cfg, ...) as one call: what it
\* returns, or that it raised
ExtractTaskRasters(trials, task, raises) ==
    LET task_cfg == TaskTypes[task]
        fb_event == Or(task_cfg.rt_fallback_event, task_cfg.rt_event)
        fb_base == Or(task_cfg.rt_fallback_baseline, task_cfg.rt_baseline)
    IN  IF task_cfg.primary_event \notin raises
        THEN [raised |-> FALSE,
              spikes |-> TrialNpSpike(trials, task_cfg.primary_event),
              rt |-> ComputeRt(trials, task_cfg.rt_event, task_cfg.rt_baseline)]
        ELSE IF Truthy(task_cfg.fallback_event)
        THEN IF task_cfg.fallback_event \in raises
             THEN [raised |-> TRUE, spikes |-> <<>>, rt |-> <<>>]
             ELSE [raised |-> FALSE,
                   spikes |-> TrialNpSpike(trials, task_cfg.fallback_event),
                   rt |-> ComputeRt(trials, fb_event, fb_base)]
        ELSE [raised |-> FALSE, spikes |-> [i \in 1..Len(trials) |-> <<>>], rt |-> <<>>]

\* one iteration of "for task_cfg in TASK_TYPES"
ExtractTask ==
    /\ ext_pc = "loop"
    /\ task_pos <= Len(TaskOrder)
    /\ LET task == TaskOrder[task_pos]
           task_trials == ext_args.task_trial_map[task]
           res == ExtractTaskRasters(task_trials, task, ext_args.raises)
       IN  IF task_trials = <<>>
           THEN UNCHANGED <<all_spikes, all_rt, all_owner, ext_pc>>
           ELSE IF res.raised
           THEN /\ ext_pc' = "raised"
                /\ UNCHANGED <<all_spikes, all_rt, all_owner>>
           ELSE /\ all_spikes' = all_spikes \o res.spikes
                /\ all_rt' = all_rt \o res.rt
                /\ all_owner' = all_owner \o
                                    [i \in 1..Len(task_trials) |-> [task |-> task, trial |-> i]]
                /\ ext_pc' = ext_pc
    /\ task_pos' = task_pos + 1
    /\ UNCHANGED <<extract_rest, ext_args>>

\* write_raster_data_h5(out_file, clu=clu, spike_clu=all_spikes, rt=...)
SaveRaster ==
    /\ ext_pc = "loop"
    /\ task_pos > Len(TaskOrder)
    /\ ext_pc' = "saved"
    /\ UNCHANGED <<extract_rest, ext_args, task_pos, all_spikes, all_rt, all_owner>>

NextExtract ==
    \/ ExtractTask
    \/ SaveRaster

\* trial dicts of one task type: SaccStart may be missing
TaskTrials ==
    {[TargsOn |-> Num(1), disTargsOn |-> Num(2), SaccStart |-> c, Go |-> Num(3),
      disGo |-> Num(4), ReachStart |-> Num(6), Pulse_start |-> Num(0)] :
        c \in {<<>>, Num(5)}}
TaskTrialLists == UNION {[1..n -> TaskTrials] : n \in 0..1}

InitExtract ==
    /\ ExtractRestIdle
    /\ ext_args \in [task_trial_map : [{"CO", "Reach", "GAF", "Null"} -> TaskTrialLists],
                      raises : SUBSET {"TargsOn", "disTargsOn", "ReachStart", "Pulse_start"}]
    /\ task_pos = 1
    /\ all_spikes = <<>>
    /\ all_rt = <<>>
    /\ all_owner = <<>>
    /\ ext_pc = "loop"

SpecExtract == InitExtract /\ [][NextExtract]_vars

\* the trial dict entry k of all_spikes was extracted for
OwnerTrial(k) == ext_args.task_trial_map[all_owner[k].task][all_owner[k].trial]

\* the reaction times a trial of task type task can have: from the primary
\* fields, from the fallback fields, or NaN
RtsOf(t, task) ==
    LET c == TaskTypes[task]
        Rt(ev, bl) == IF ~Truthy(ev) \/ ~Truthy(bl) THEN NaN
                      ELSE IF t[ev] = <<>> \/ t[bl] = <<>> THEN NaN
                      ELSE Num(Val(t[ev]) - Val(t[bl]))
    IN  {NaN, Rt(c.rt_event, c.rt_baseline),
         Rt(Or(c.rt_fallback_event, c.rt_event), Or(c.rt_fallback_baseline, c.rt_baseline))}

\* C29: in every raster extract_rasters saves, over any mix of task types
\* and any primary / fallback outcome, the reaction-time list has exactly
\* one entry per per-trial spike list, and entry k is the reaction time of
\* the trial whose spikes are at position k.
C29_OneRtPerSpikeList ==
    ext_pc = "saved" =>
        /\ Len(all_rt) = Len(all_spikes)
        /\ \A k \in 1..Len(all_rt) :
              k <= Len(all_owner) => all_rt[k] \in RtsOf(OwnerTrial(k), all_owner[k].task)

====
